---- MODULE Spec2Model ----
(***************************************************************************)
(* A model of the Manus-Cu-Sen agent runtime:                              *)
(*   - schema.py      Message, Memory (add_message, summarize)             *)
(*   - agent_core.py  ToolCollection.execute, LLM.ask_tool (tenacity       *)
(*                    retry), BaseAgent.run, ToolCallAgent.step_stream,    *)
(*                    reflect_stream, is_stuck                             *)
(*   - llm.py         LLM.ask_tool (cache lookup, failover)                *)
(*   - tools/planning.py  PlanningTool.execute                             *)
(*   - event_bus.py   EventBus                                             *)
(*                                                                         *)
(* The specifications share the variables:                                *)
(*   Spec      one run of the agent loop against an arbitrary provider and *)
(*             arbitrary tool handlers                                     *)
(*   MemSpec   arbitrary add_message / summarize / is_stuck calls on one   *)
(*             Memory                                                      *)
(*   SumSpec   summarize on memories of numbered messages                  *)
(*   LLMSpec   ask_tool requests against a primary and ordered backups     *)
(*   CacheSpec set calls on one ResponseCache                              *)
(*   SanSpec   a provider text sanitized when stored and when serialized   *)
(*   StreamSpec ask_tool_stream consumed to its end                        *)
(*   PlanSpec  commands of the planning tool on one tool instance          *)
(*   TwoSpec   two agent instances whose operations interleave             *)
(*                                                                         *)
(* Texts are TLA+ strings; TLC evaluates Len, \o and SubSeq on them, so    *)
(* slicing, concatenation and sanitising are computed as the code does.    *)
(***************************************************************************)
EXTENDS Integers, Sequences, FiniteSets, TLC

VARIABLES
    messages,       \* Memory.messages of the instance under consideration
    lastOp,         \* MemSpec: the Memory operation that returned last
    lastArg,        \* MemSpec: what that operation was called with
    state,          \* BaseAgent.state
    current_step,   \* BaseAgent.current_step
    tool_calls,     \* ToolCallAgent.tool_calls (calls of the current turn)
    tool_cache,     \* BaseAgent.tool_cache: set of <<key, result>> entries
    final_answer,   \* the attribute main.py reads after run
    pc,             \* position of the run coroutine
    callIdx,        \* index of the call the executor phase is at
    thinkCalls,     \* ask_tool requests issued by this run
    handlerCalls,   \* handler invocations of the dispatch in the executor phase
    handlerLog,     \* what each of these invocations did ("raise" or its value)
    lastThink,      \* what the last think call returned
    terminated,     \* output of the terminate call that executed (None: none did)
    criticCalls,    \* quick_ask requests reflect_stream issued in this run
    criticReply,    \* what the critic answered in the current step (None: not asked)
    summarizeCalls, \* Memory.summarize calls made by this run
    lpc,            \* LLMSpec: position inside ask_tool
    impl,           \* LLMSpec: which ask_tool is running
    nbackups,       \* LLMSpec: number of configured backup providers
    settingsCache,  \* LLMSpec: what settings.cache.enabled evaluates to
    attempt,        \* LLMSpec: tenacity attempt number (agent_core)
    bidx,           \* LLMSpec: index of the backup tried next
    trace,          \* LLMSpec: provider calls of the current request
    primaryErr,     \* LLMSpec: the exception e bound by the primary's except
    lresult,        \* LLMSpec: what the request gave its caller
    lcache,         \* LLMSpec: ResponseCache.cache (insertion ordered)
    reqKey,         \* LLMSpec: cache key of the current request
    usage,          \* LLMSpec: UsageTracker.session_stats["by_provider"]
    requests,       \* LLMSpec: requests started so far
    served,         \* LLMSpec: <<key, response>> of every request that returned
    agents,         \* TwoSpec: the fields of each agent instance constructed
    heap,           \* TwoSpec: the objects the fields of the instances refer to
    listeners,      \* TwoSpec: EventBus._listeners (class attribute)
    instances_count,\* TwoSpec: LLM._instances_count (class attribute)
    chunks,         \* StreamSpec: the chunks the consumer of the stream received
    plans,          \* PlanSpec: PlanningTool.plans
    plan_result     \* PlanSpec: what the last execute call gave

memVars   == <<messages, lastOp, lastArg>>
agentVars == <<state, current_step, tool_calls, tool_cache, final_answer, pc,
               callIdx, thinkCalls, handlerCalls, handlerLog, lastThink,
               terminated, criticCalls, criticReply, summarizeCalls>>
llmVars   == <<lpc, impl, nbackups, settingsCache, attempt, bidx, trace,
               primaryErr, lresult, lcache, reqKey, usage, requests, served>>
extVars   == <<agents, heap, listeners, instances_count, chunks, plans,
               plan_result>>
vars      == <<messages, lastOp, lastArg, state, current_step, tool_calls, tool_cache,
               final_answer, pc, callIdx, thinkCalls, handlerCalls, handlerLog,
               lastThink, terminated,
                   criticCalls, criticReply, summarizeCalls,
               lpc, impl, nbackups, settingsCache, attempt,
               bidx,
               trace, primaryErr, lresult, lcache, reqKey, usage, requests,
               served,
               agents, heap, listeners, instances_count, chunks, plans,
               plan_result>>

(***************************************************************************)
(* Bounds of the model.  The Memory policy numbers and max_steps are       *)
(* fields with defaults (50, 30, 20); the model instantiates them small.   *)
(***************************************************************************)
max_steps == 2
\* Memory.max_messages of the agent's memory
max_messages == 3
\* Memory.max_messages of the MemSpec instance
mem_max_messages == 2
\* Memory.summarization_threshold
summarization_threshold == 2
\* longest memory MemSpec grows
MaxMemLen == 12
\* most tool calls in one provider turn
MaxCalls == 2
\* most backup providers configured
MaxBackups == 2
\* most ask_tool requests in one LLMSpec session
MaxRequests == 2

(***************************************************************************)
(* schema.py: Role, AgentState, Message                                    *)
(***************************************************************************)
SYSTEM    == "system"
USER      == "user"
ASSISTANT == "assistant"
TOOL      == "tool"

IDLE     == "IDLE"
RUNNING  == "RUNNING"
FINISHED == "FINISHED"
ERROR    == "ERROR"

\* Python None for an attribute that is a string when set
None == "None"

Message(role, content, calls, name, tool_call_id) ==
    [role |-> role, content |-> content, tool_calls |-> calls,
     name |-> name, tool_call_id |-> tool_call_id]

user_message(content) == Message(USER, content, <<>>, None, None)

system_message(content) == Message(SYSTEM, content, <<>>, None, None)

assistant_message(content) == Message(ASSISTANT, content, <<>>, None, None)

tool_message(content, name, tool_call_id) ==
    Message(TOOL, content, <<>>, name, tool_call_id)

from_tool_calls(calls, content) == Message(ASSISTANT, content, calls, None, None)

(***************************************************************************)
(* Python list helpers                                                     *)
(***************************************************************************)
\* s[-n:]  (for n = 0 Python gives the whole list)
LastN(s, n) ==
    IF n = 0 \/ Len(s) <= n THEN s ELSE SubSeq(s, Len(s) - n + 1, Len(s))

\* s[:-n] for n > 0
DropLastN(s, n) ==
    IF Len(s) <= n THEN <<>> ELSE SubSeq(s, 1, Len(s) - n)

IsSystem(m) == m.role = SYSTEM

IsNotSystem(m) == m.role # SYSTEM

(***************************************************************************)
(* schema.py: Memory.add_message                                           *)
(***************************************************************************)
\* the dedup test of add_message
IsDuplicate(msgs, message) ==
    /\ msgs # <<>>
    /\ msgs[Len(msgs)].role = message.role
    /\ msgs[Len(msgs)].content = message.content
    /\ message.tool_calls = <<>>

\* a truncation that keeps the last messages whatever their role
EmergencyTruncate_AnyRole(msgs, maxm) == LastN(msgs, maxm)

\* the emergency truncation of add_message
EmergencyTruncate(msgs, maxm) ==
    SelectSeq(msgs, IsSystem) \o LastN(SelectSeq(msgs, IsNotSystem), maxm)

add_message(msgs, message, maxm) ==
    IF IsDuplicate(msgs, message) THEN msgs
    ELSE LET appended == Append(msgs, message)
         IN  IF Len(appended) > maxm * 2
             THEN EmergencyTruncate(appended, maxm)
             ELSE appended

(***************************************************************************)
(* schema.py: sanitize_content                                             *)
(***************************************************************************)
\* s[i:i+len(p)] == p
StartsAt(s, i, p) ==
    /\ i + Len(p) - 1 <= Len(s)
    /\ SubSeq(s, i, i + Len(p) - 1) = p

\* the first alternative of alts that matches at i (0 when none does)
RECURSIVE AltAt(_, _, _, _)
AltAt(s, i, alts, k) ==
    IF k > Len(alts) THEN 0
    ELSE IF StartsAt(s, i, alts[k]) THEN k
    ELSE AltAt(s, i, alts, k + 1)

\* the least element of a non-empty set of positions
MinPos(S) == CHOOSE j \in S : \A k \in S : j <= k

\* re.sub(a1|a2|..., "", s) for literal alternatives, scanning from i: the
\* text up to the leftmost match is kept and the scan resumes behind it
RECURSIVE RemoveAlts(_, _, _)
RemoveAlts(s, alts, i) ==
    LET starts == { j \in i..Len(s) : AltAt(s, j, alts, 1) # 0 }
    IN  IF starts = {} THEN SubSeq(s, i, Len(s))
        ELSE LET j == MinPos(starts)
             IN  SubSeq(s, i, j - 1)
                 \o RemoveAlts(s, alts, j + Len(alts[AltAt(s, j, alts, 1)]))

\* where the lazy .*? of <\|.*?\|> ends: the first "|>" at or after j with
\* no newline before it (0 when there is none)
CloseAt(s, j) ==
    LET closes == { k \in j..Len(s) : StartsAt(s, k, "|>") }
    IN  IF closes = {} THEN 0
        ELSE IF \E u \in j..(MinPos(closes) - 1) : SubSeq(s, u, u) = "\n" THEN 0
        ELSE MinPos(closes)

\* re.sub(r"<\|.*?\|>", "", s), scanning from i
RECURSIVE RemoveControl(_, _)
RemoveControl(s, i) ==
    LET starts == { j \in i..Len(s) :
                      StartsAt(s, j, "<|") /\ CloseAt(s, j + 2) # 0 }
    IN  IF starts = {} THEN SubSeq(s, i, Len(s))
        ELSE LET j == MinPos(starts)
             IN  SubSeq(s, i, j - 1) \o RemoveControl(s, CloseAt(s, j + 2) + 2)

IsSpace(c) == c \in {" ", "\n", "\t", "\r"}

RECURSIVE LStrip(_)
LStrip(s) ==
    IF s # "" /\ IsSpace(SubSeq(s, 1, 1)) THEN LStrip(SubSeq(s, 2, Len(s))) ELSE s

RECURSIVE RStrip(_)
RStrip(s) ==
    IF s # "" /\ IsSpace(SubSeq(s, Len(s), Len(s)))
    THEN RStrip(SubSeq(s, 1, Len(s) - 1)) ELSE s

\* the seven patterns in the order of the code; the last two are written
\* without escapes, so "|" is the alternation of "<", the name and ">"
sanitize_content(text) ==
    IF text = "" THEN text
    ELSE LET p1 == RemoveControl(text, 1)
             p2 == RemoveAlts(p1, <<"[INST]", "[/INST]">>, 1)
             p3 == RemoveAlts(p2, <<"<<SYS>>">>, 1)
             p4 == RemoveAlts(p3, <<"<|im_start|>">>, 1)
             p5 == RemoveAlts(p4, <<"<|im_end|>">>, 1)
             p6 == RemoveAlts(p5, <<"<", "end_header_id", ">">>, 1)
             p7 == RemoveAlts(p6, <<"<", "start_header_id", ">">>, 1)
         IN  RStrip(LStrip(p7))

(***************************************************************************)
(* schema.py: Memory.summarize                                             *)
(***************************************************************************)
keep_recent == 8

summary_cap == 500

\* the label of the synthetic summary message (ASCII rendering)
SummaryLabel == "[TOM TAT]: "

\* a window that is one message short
Recent_Short(non_system) == LastN(non_system, keep_recent - 1)

\* recent_msgs = non_system[-keep_recent:]
Recent(non_system) == LastN(non_system, keep_recent)

\* an except clause that only logs
Fallback_Unchanged(msgs, system_msgs, recent_msgs) == msgs

\* the except clause: self.messages = system_msgs + recent_msgs
Fallback(msgs, system_msgs, recent_msgs) == system_msgs \o recent_msgs

\* outcome: <<"raise">> when llm.quick_ask raises, else <<"text", summary>>
summarize(msgs, threshold, outcome) ==
    IF Len(msgs) <= threshold THEN msgs
    ELSE LET system_msgs  == SelectSeq(msgs, IsSystem)
             non_system   == SelectSeq(msgs, IsNotSystem)
             to_summarize == IF Len(non_system) > keep_recent
                             THEN DropLastN(non_system, keep_recent)
                             ELSE <<>>
             recent_msgs  == Recent(non_system)
             summary_text == IF outcome[1] = "raise" THEN ""
                             ELSE IF Len(outcome[2]) > summary_cap
                             THEN SubSeq(outcome[2], 1, summary_cap) \o "..."
                             ELSE outcome[2]
         IN  IF to_summarize = <<>> THEN system_msgs \o recent_msgs
             ELSE IF outcome[1] = "raise"
             THEN Fallback(msgs, system_msgs, recent_msgs)
             ELSE system_msgs
                  \o <<assistant_message(SummaryLabel \o summary_text)>>
                  \o recent_msgs

(***************************************************************************)
(* schema.py: Message.to_dict, Memory.to_dict_list                         *)
(***************************************************************************)
\* the dict sent to the provider; a key that to_dict leaves out is None
to_dict(m) ==
    LET content == IF m.content # "" /\ m.content # None
                   THEN sanitize_content(m.content)
                   ELSE m.content
    IN  [role         |-> m.role,
         content      |-> IF m.role = ASSISTANT /\ m.tool_calls # <<>> /\ content = ""
                          THEN None ELSE content,
         tool_calls   |-> m.tool_calls,
         name         |-> m.name,
         tool_call_id |-> m.tool_call_id]

to_dict_list(msgs) == [i \in 1..Len(msgs) |-> to_dict(msgs[i])]

(***************************************************************************)
(* Tool calls and texts the model draws its inputs from                    *)
(***************************************************************************)
\* the nudge BaseAgent.run adds when is_stuck holds
Nudge == "Reflection: You are repeating yourself. Try a different approach or tool."

\* ids as bug_hunter.py's MockLLM numbers them: call_<position>
CallId(i) == "call_" \o ToString(i - 1)

ToolCall(id, name, arguments) == [id |-> id, name |-> name, arguments |-> arguments]

(***************************************************************************)
(* agent_core.py: BaseAgent.is_stuck                                       *)
(***************************************************************************)
is_stuck(msgs) ==
    IF Len(msgs) < 4 THEN FALSE
    ELSE LET last4 == LastN(msgs, 4)
             idx   == { i \in 1..Len(last4) :
                          last4[i].role = ASSISTANT /\ last4[i].content # "" }
         IN  /\ Cardinality(idx) >= 2
             /\ Cardinality({ last4[i].content : i \in idx }) = 1

(***************************************************************************)
(* MemSpec: one Memory, any sequence of add_message and summarize, and     *)
(* is_stuck evaluated on it                                                *)
(***************************************************************************)
MemInputs ==
    { system_message(Nudge),
      user_message("A"), user_message("B"), user_message("[IN[INST]ST]"),
      assistant_message("A"), assistant_message("B"),
      from_tool_calls(<<ToolCall(CallId(1), "terminal", "{}")>>, "A"),
      tool_message("A", "terminal", CallId(1)),
      tool_message("B", "terminal", CallId(1)) }

QuickAskOutcomes == { <<"raise">>, <<"text", "S">> }

AgentIdle ==
    /\ state = IDLE /\ current_step = 0 /\ tool_calls = <<>> /\ tool_cache = {}
    /\ final_answer = None /\ pc = "idle" /\ callIdx = 0 /\ thinkCalls = 0
    /\ handlerCalls = 0 /\ handlerLog = <<>> /\ lastThink = "none"
    /\ terminated = None
    /\ criticCalls = 0 /\ criticReply = None /\ summarizeCalls = 0

\* no agent pair, no stream and no planning tool is under consideration
ExtIdle ==
    /\ agents = <<>> /\ heap = <<>> /\ listeners = <<>> /\ instances_count = 0
    /\ chunks = <<>> /\ plans = <<>> /\ plan_result = None

LLMIdle ==
    /\ lpc = "idle" /\ impl = "none" /\ nbackups = 0 /\ settingsCache = "off"
    /\ attempt = 0 /\ bidx = 0 /\ trace = <<>> /\ primaryErr = None
    /\ lresult = None /\ lcache = <<>> /\ reqKey = None /\ requests = 0
    /\ usage = <<>> /\ served = <<>>

MemInit ==
    /\ messages = <<>>
    /\ lastOp = "init"
    /\ lastArg = <<>>
    /\ AgentIdle
    /\ ExtIdle
    /\ LLMIdle

\* Memory.add_message(m)
MemAdd(m) ==
    /\ Len(messages) < MaxMemLen
    /\ messages' = add_message(messages, m, mem_max_messages)
    /\ lastOp' = IF IsDuplicate(messages, m) THEN "dedup"
                 ELSE IF Len(messages) + 1 > mem_max_messages * 2 THEN "truncate"
                 ELSE "add"
    /\ lastArg' = <<m>>
    /\ UNCHANGED <<agentVars, llmVars, extVars>>

\* Memory.summarize(llm)
MemSummarize(outcome) ==
    /\ messages' = summarize(messages, summarization_threshold, outcome)
    /\ lastOp' = "summarize"
    /\ lastArg' = outcome
    /\ UNCHANGED <<agentVars, llmVars, extVars>>

\* BaseAgent.is_stuck() on an agent whose memory this is; lastOp keeps the
\* value returned
MemIsStuck ==
    /\ lastOp' = IF is_stuck(messages) THEN "stuck" ELSE "not stuck"
    /\ lastArg' = <<>>
    /\ UNCHANGED <<messages, agentVars, llmVars, extVars>>

MemNext ==
    \/ \E m \in MemInputs : MemAdd(m)
    \/ \E o \in QuickAskOutcomes : MemSummarize(o)
    \/ MemIsStuck

MemSpec == MemInit /\ [][MemNext]_vars

(***************************************************************************)
(* SanSpec: a provider text is sanitized by step_stream, stored in memory  *)
(* and sanitized again by to_dict when memory is serialized                *)
(***************************************************************************)
\* most pieces a provider text is made of
MaxPieces == 3

\* the pieces: sentinels, parts of sentinels and plain characters
SanPieces == {"[INST]", "[IN", "ST]", "<|", "|>", "<", "a", " "}

RECURSIVE Concat(_)
Concat(f) == IF f = <<>> THEN "" ELSE f[1] \o Concat(Tail(f))

SanInputs ==
    UNION { { Concat(f) : f \in [1..n -> SanPieces] } : n \in 0..MaxPieces }

SanInit ==
    /\ messages = <<>>
    /\ lastOp = "init"
    /\ lastArg = <<>>
    /\ AgentIdle
    /\ ExtIdle
    /\ LLMIdle

\* step_stream: content = sanitize_content(response.content), then the
\* assistant message is added to a fresh memory; lastArg keeps the text
SanStore(text) ==
    /\ lastOp = "init"
    /\ LET content == IF text # "" THEN sanitize_content(text) ELSE ""
       IN  messages' = add_message(messages, assistant_message(content),
                                   max_messages)
    /\ lastOp' = "store"
    /\ lastArg' = <<text>>
    /\ UNCHANGED <<agentVars, llmVars, extVars>>

\* the next think call: memory.to_dict_list(); lastArg keeps the text and
\* the content that goes on the wire
SanSerialize ==
    /\ lastOp = "store"
    /\ lastOp' = "to_dict"
    /\ lastArg' = <<lastArg[1], to_dict_list(messages)[1].content>>
    /\ UNCHANGED <<messages, agentVars, llmVars, extVars>>

SanNext ==
    \/ \E text \in SanInputs : SanStore(text)
    \/ SanSerialize

SanSpec == SanInit /\ [][SanNext]_vars

(***************************************************************************)
(* SumSpec: Memory.summarize on memories long enough to be compacted.      *)
(* The messages are numbered by their position, so that order and identity *)
(* of what summarize keeps can be told.                                    *)
(***************************************************************************)
\* longest memory summarize is given
MaxSumLen == 10

\* most system messages in it
MaxSystem == 2

\* message i of a memory whose system messages are at the positions in S
NumberedMsg(i, S) ==
    IF i \in S THEN system_message("s" \o ToString(i))
    ELSE IF i % 2 = 1 THEN user_message("m" \o ToString(i))
    ELSE assistant_message("m" \o ToString(i))

SumInputs ==
    UNION { { [i \in 1..n |-> NumberedMsg(i, S)] :
                S \in { T \in SUBSET (1..n) : Cardinality(T) <= MaxSystem } } :
            n \in 0..MaxSumLen }

\* n copies of s
RECURSIVE Rep(_, _)
Rep(s, n) ==
    IF n = 0 THEN ""
    ELSE IF n % 2 = 0 THEN LET half == Rep(s, n \div 2) IN half \o half
    ELSE s \o Rep(s, n - 1)

\* quick_ask raises, answers, or answers with more than summary_cap characters
SumOutcomes == QuickAskOutcomes \cup { <<"text", Rep("s", summary_cap + 1)>> }

SumInit ==
    /\ messages \in SumInputs
    /\ lastOp = "init"
    /\ lastArg = <<>>
    /\ AgentIdle
    /\ ExtIdle
    /\ LLMIdle

SumNext == \E o \in SumOutcomes : MemSummarize(o)

SumSpec == SumInit /\ [][SumNext]_vars

(***************************************************************************)
(* Python str helpers used by the loop                                     *)
(***************************************************************************)
\* sub in s
RECURSIVE ContainsFrom(_, _, _)
ContainsFrom(s, sub, i) ==
    IF i + Len(sub) - 1 > Len(s) THEN FALSE
    ELSE IF StartsAt(s, i, sub) THEN TRUE
    ELSE ContainsFrom(s, sub, i + 1)

Contains(s, sub) == ContainsFrom(s, sub, 1)

UpperChar(c) ==
    CASE c = "a" -> "A" [] c = "b" -> "B" [] c = "c" -> "C" [] c = "d" -> "D"
      [] c = "e" -> "E" [] c = "f" -> "F" [] c = "g" -> "G" [] c = "h" -> "H"
      [] c = "i" -> "I" [] c = "j" -> "J" [] c = "k" -> "K" [] c = "l" -> "L"
      [] c = "m" -> "M" [] c = "n" -> "N" [] c = "o" -> "O" [] c = "p" -> "P"
      [] c = "q" -> "Q" [] c = "r" -> "R" [] c = "s" -> "S" [] c = "t" -> "T"
      [] c = "u" -> "U" [] c = "v" -> "V" [] c = "w" -> "W" [] c = "x" -> "X"
      [] c = "y" -> "Y" [] c = "z" -> "Z" [] OTHER -> c

\* s.upper()
RECURSIVE Upper(_)
Upper(s) ==
    IF s = "" THEN "" ELSE UpperChar(SubSeq(s, 1, 1)) \o Upper(SubSeq(s, 2, Len(s)))

(***************************************************************************)
(* agent_core.py: ToolCollection.execute                                   *)
(***************************************************************************)
max_retries == 2

\* the default registry: ToolCollection(Terminate()) plus one tool added
\* with add_tool
RegisteredTools == {"terminate", "terminal"}

\* What a handler does when it is invoked again and again: "raise" or the
\* value it returns, for more invocations than execute can make.
Behaviours(outs) == [1..(max_retries + 2) -> outs \cup {"raise"}]

\* a retry test that allows one retry too many
RetryAllowed_Extra(att) == att < max_retries + 1

\* execute: if attempt < max_retries
RetryAllowed(att) == att < max_retries

\* execute: the loop for attempt in range(max_retries + 1), entered at
\* attempt att.  attempts counts the invocations, log holds what each did and
\* ret is the value returned ("raise" when the last invocation raised).
RECURSIVE execute_loop(_, _)
execute_loop(beh, att) ==
    IF beh[att + 1] # "raise"
    THEN [attempts |-> att + 1, ret |-> beh[att + 1],
          log |-> SubSeq(beh, 1, att + 1)]
    ELSE IF RetryAllowed(att) THEN execute_loop(beh, att + 1)
    ELSE [attempts |-> att + 1, ret |-> "raise",
          log |-> SubSeq(beh, 1, att + 1)]

\* the runs of execute's loop over every behaviour of the handler
HandlerRuns(outs) == { execute_loop(beh, 0) : beh \in Behaviours(outs) }

\* a dispatcher that hands back whatever the run left
execute_result_Silent(name, run) == run.ret

\* the value ToolCollection.execute returns
execute_result(name, run) ==
    IF name \notin RegisteredTools THEN "Error: Tool " \o name \o " not found"
    ELSE IF run.ret = "raise" THEN "Error executing " \o name \o ": boom"
    ELSE run.ret

\* how often ToolCollection.execute invoked the handler
execute_attempts(name, run) ==
    IF name \notin RegisteredTools THEN 0 ELSE run.attempts

\* what the invocations made by ToolCollection.execute did
execute_log(name, run) ==
    IF name \notin RegisteredTools THEN <<>> ELSE run.log

(***************************************************************************)
(* agent_core.py: the agent's configuration                                *)
(***************************************************************************)
simple_tools ==
    {"search_tool", "calculator", "scraper", "planning", "terminate",
     "transcribe", "browser"}

\* settings.CACHE_ENABLED (CacheSettings.enabled defaults to True)
CACHE_ENABLED == TRUE

max_result_len == 10000

keep_head == 4000

analysis_cap == 500

\* arguments strings the provider emits: one that parses, one that does not
ArgsA == "{\"output\": \"A\"}"

ArgsBad == "{\"output\": "

Arguments == {ArgsA, ArgsBad}

\* json.loads succeeds
JsonValid(args_str) == args_str = ArgsA

\* json.loads(args_str)["output"]
OutputOf(args_str) == IF args_str = ArgsA THEN "A" ELSE None

ToolNames == {"terminate", "terminal", "nope"}

\* a result one character longer than max_result_len whose head, middle
\* and tail differ
LongResult == Rep("h", keep_head) \o Rep("m", 2001) \o Rep("t", keep_head)

\* what a handler other than Terminate may return: a value, an error
\* result returned by value, a value longer than max_result_len
ToolOutputs == {"A", "Error: command failed", LongResult}

\* the handler is not invoked
NoRun == [attempts |-> 0, ret |-> None, log |-> <<>>]

\* the runs of every handler other than Terminate
AllHandlerRuns == HandlerRuns(ToolOutputs)

\* Terminate.execute returns its output argument at once; any other
\* registered handler is arbitrary; a name that is not registered has none
HandlerRunsFor(name, args_str) ==
    IF name = "terminate"
    THEN {[attempts |-> 1, ret |-> OutputOf(args_str),
           log |-> <<OutputOf(args_str)>>]}
    ELSE IF name \in RegisteredTools THEN AllHandlerRuns
    ELSE {NoRun}

\* the texts and the tool-call lists of a provider response
RespTexts == {"", "hi", "hi <|eot|>"}

\* the calls a turn is made of: the arguments are parsed before the name
\* is looked at, so one name carries the string that does not parse
CallShapes ==
    { <<name, ArgsA>> : name \in ToolNames } \cup { <<"terminate", ArgsBad>> }

RespCalls ==
    UNION { { [i \in 1..n |-> ToolCall(CallId(i), f[i][1], f[i][2])] :
              f \in [1..n -> CallShapes] } : n \in 0..MaxCalls }

CriticReplies == {"PROCEED", "Proceed.", "FEEDBACK: more"}

Requests == {"", "A"}

(***************************************************************************)
(* agent_core.py: BaseAgent.run, ToolCallAgent.step_stream, reflect_stream *)
(***************************************************************************)
\* Memory outlives run: the agent starts on a fresh Memory or on what an
\* earlier run of the same agent left: request "A" answered "hi", or
\* request "A" that ran out of steps after the browser opened a page
PriorMemories ==
    { <<>>,
      <<user_message("A"), assistant_message("hi")>>,
      <<user_message("A"),
        from_tool_calls(<<ToolCall("call_b", "browser",
                                   "{\"action\": \"go_to_url\"}")>>, ""),
        tool_message("page", "browser", "call_b")>> }

Init ==
    /\ messages \in PriorMemories
    /\ lastOp = "init"
    /\ lastArg = <<>>
    /\ AgentIdle
    /\ ExtIdle
    /\ LLMIdle

\* run: the statements before the loop
Run(request) ==
    /\ pc = "idle"
    /\ current_step' = 0
    /\ state' = RUNNING
    /\ messages' = IF request # ""
                   THEN add_message(messages, user_message(request), max_messages)
                   ELSE messages
    /\ pc' = "loop"
    /\ UNCHANGED <<lastOp, lastArg, tool_calls, tool_cache, final_answer, callIdx,
                   thinkCalls, handlerCalls, handlerLog, lastThink, terminated,
                   criticCalls, criticReply, summarizeCalls,
                   llmVars, extVars>>

\* a loop that forgets to count the step
NextStep_Forgotten(n) == n

\* run: self.current_step += 1
NextStep(n) == n + 1

\* a loop that stops on the step budget alone
LoopContinues_StepsOnly == current_step < max_steps

\* the condition of run's while loop
LoopContinues == current_step < max_steps /\ state # FINISHED

\* run: the loop head; leaving the loop runs the finally clause
LoopHead ==
    /\ pc = "loop"
    /\ IF LoopContinues
       THEN /\ current_step' = NextStep(current_step)
            /\ pc' = "think"
            /\ state' = state
       ELSE /\ state' = FINISHED
            /\ pc' = "done"
            /\ current_step' = current_step
    /\ UNCHANGED <<memVars, tool_calls, tool_cache, final_answer, callIdx,
                   thinkCalls, handlerCalls, handlerLog, lastThink, terminated,
                   criticCalls, criticReply, summarizeCalls,
                   llmVars, extVars>>

\* the message step_stream commits for a response
AssistantMsg(calls, content) ==
    IF calls # <<>> THEN from_tool_calls(calls, content)
    ELSE assistant_message(content)

\* step_stream up to the executor phase, for a response of the provider
Think(text, calls) ==
    /\ pc = "think"
    /\ thinkCalls' = thinkCalls + 1
    /\ LET content == IF text # "" THEN sanitize_content(text) ELSE ""
       IN  messages' = add_message(messages, AssistantMsg(calls, content),
                                   max_messages)
    /\ tool_calls' = calls
    /\ handlerCalls' = 0
    /\ handlerLog' = <<>>
    /\ criticReply' = None
    /\ IF calls = <<>>
       THEN /\ state' = FINISHED
            /\ pc' = "critic"
            /\ callIdx' = 0
            /\ lastThink' = "content"
       ELSE /\ state' = state
            /\ pc' = "exec"
            /\ callIdx' = 1
            /\ lastThink' = "calls"
    /\ UNCHANGED <<lastOp, lastArg, current_step, tool_cache, final_answer, terminated,
                   criticCalls, summarizeCalls,
                   llmVars, extVars>>

\* llm.ask_tool raises: the exception leaves step_stream and run, whose
\* finally clause sets the state
ThinkRaises ==
    /\ pc = "think"
    /\ thinkCalls' = thinkCalls + 1
    /\ lastThink' = "raise"
    /\ state' = FINISHED
    /\ pc' = "done"
    /\ UNCHANGED <<memVars, current_step, tool_calls, tool_cache, final_answer,
                   callIdx, handlerCalls, handlerLog, terminated,
                   criticCalls, criticReply, summarizeCalls,
                   llmVars, extVars>>

cache_key(name, args_str) == name \o ":" \o args_str

CacheHit(key) == CACHE_ENABLED /\ \E e \in tool_cache : e[1] = key

CacheGet(key) == (CHOOSE e \in tool_cache : e[1] = key)[2]

\* res_str[:4000]
HeadOf(res_str) == SubSeq(res_str, 1, keep_head)

\* a tail that loses a character
TailOf_Short(res_str) == SubSeq(res_str, Len(res_str) - keep_head + 2, Len(res_str))

\* res_str[-4000:]
TailOf(res_str) == SubSeq(res_str, Len(res_str) - keep_head + 1, Len(res_str))

\* the marker put between head and tail
TruncationMarker(original_len) ==
    "\n\n... [TRUNCATED " \o ToString(original_len - 2 * keep_head)
    \o " CHARS] ...\n\n"

\* a step that stores every result as it is
Truncated_Never(result) == result

\* the surgical head/tail truncation of step_stream
Truncated(result) ==
    IF Len(result) > max_result_len
    THEN HeadOf(result) \o TruncationMarker(Len(result)) \o TailOf(result)
    ELSE result

\* an executor loop that marks the agent RUNNING after any other call
StateAfterCall_Resumes(name, st) == IF name = "terminate" THEN FINISHED ELSE RUNNING

\* the state after a call named name was recorded
StateAfterCall(name, st) == IF name = "terminate" THEN FINISHED ELSE st

\* an executor loop that walks the calls backwards
CallAt_Reversed(calls, idx) == calls[Len(calls) - idx + 1]

\* for call in self.tool_calls: the call of iteration idx
CallAt(calls, idx) == calls[idx]

\* step_stream: one iteration of the executor loop
ExecCall(run) ==
    /\ pc = "exec"
    /\ LET call     == CallAt(tool_calls, callIdx)
           name     == call.name
           args_str == call.arguments
           key      == cache_key(name, args_str)
       IN  /\ IF JsonValid(args_str) THEN run \in HandlerRunsFor(name, args_str)
              ELSE run = NoRun
           /\ IF ~JsonValid(args_str)
              THEN /\ messages' = add_message(messages,
                        tool_message("Error: Invalid JSON arguments provided for tool "
                                     \o name \o ".", name, call.id), max_messages)
                   /\ UNCHANGED <<tool_cache, state, terminated>>
                   /\ handlerCalls' = 0
                   /\ handlerLog' = <<>>
              ELSE LET hit    == CacheHit(key)
                       result == IF hit THEN CacheGet(key)
                                 ELSE execute_result(name, run)
                   IN  /\ tool_cache' = IF ~hit /\ CACHE_ENABLED
                                        THEN tool_cache \cup {<<key, result>>}
                                        ELSE tool_cache
                       /\ handlerCalls' = IF hit THEN 0
                                          ELSE execute_attempts(name, run)
                       /\ handlerLog' = IF hit THEN <<>>
                                        ELSE execute_log(name, run)
                       /\ messages' = add_message(messages,
                             tool_message(Truncated(result), name, call.id),
                             max_messages)
                       /\ state' = StateAfterCall(name, state)
                       /\ terminated' = IF name = "terminate"
                                        THEN OutputOf(args_str) ELSE terminated
    /\ IF callIdx < Len(tool_calls)
       THEN callIdx' = callIdx + 1 /\ pc' = "exec"
       ELSE callIdx' = 0 /\ pc' = "critic"
    /\ UNCHANGED <<lastOp, lastArg, current_step, tool_calls, final_answer, thinkCalls,
                   lastThink, criticCalls, criticReply, summarizeCalls,
                   llmVars, extVars>>

\* run: whether the critic is asked after the step
CriticDue ==
    /\ state # FINISHED
    /\ (IF tool_calls # <<>> THEN tool_calls[1].name ELSE "") \notin simple_tools

\* the message reflect_stream adds for a reply of the critic
CriticFeedback(analysis_raw) ==
    LET clean     == sanitize_content(analysis_raw)
        analysis  == IF Len(clean) > analysis_cap
                     THEN SubSeq(clean, 1, analysis_cap) \o "... [TRUNCATED]"
                     ELSE clean
        last_tool == IF tool_calls # <<>> THEN tool_calls[1].name ELSE ""
        failover  == IF /\ last_tool = "search"
                        /\ \/ Contains(Upper(analysis), "FEEDBACK")
                           \/ Contains(Upper(analysis), "NOT ENOUGH")
                     THEN " [FAILOVER HINT: Search results poor. Use 'browser' with go_to_url to get deeper info.]"
                     ELSE ""
    IN  user_message("Critic Feedback: " \o analysis \o failover)

\* reflect_stream answered PROCEED
Proceeds(analysis_raw) == Contains(Upper(sanitize_content(analysis_raw)), "PROCEED")

\* run: the critic pass after the step
Critic(reply) ==
    /\ pc = "critic"
    /\ IF CriticDue /\ ~Proceeds(reply)
       THEN messages' = add_message(messages, CriticFeedback(reply), max_messages)
       ELSE messages' = messages
    /\ IF CriticDue
       THEN criticCalls' = criticCalls + 1 /\ criticReply' = reply
       ELSE UNCHANGED <<criticCalls, criticReply>>
    /\ pc' = "stuck"
    /\ handlerCalls' = 0
    /\ handlerLog' = <<>>
    /\ UNCHANGED <<lastOp, lastArg, state, current_step, tool_calls, tool_cache,
                   final_answer, callIdx, thinkCalls, lastThink, terminated,
                   summarizeCalls,
                   llmVars, extVars>>

\* llm.quick_ask raises inside reflect_stream: the exception leaves run
CriticRaises ==
    /\ pc = "critic"
    /\ CriticDue
    /\ criticCalls' = criticCalls + 1
    /\ state' = FINISHED
    /\ pc' = "done"
    /\ UNCHANGED <<memVars, current_step, tool_calls, tool_cache, final_answer,
                   callIdx, thinkCalls, handlerCalls, handlerLog, lastThink,
                   terminated, criticReply, summarizeCalls,
                   llmVars, extVars>>

\* a stuck check that detects and adds nothing
StuckNudge_None(msgs) == msgs

\* run: self.memory.add_message(Message.system_message("Reflection: ..."))
StuckNudge(msgs) == add_message(msgs, system_message(Nudge), max_messages)

\* run: the stuck check that ends each iteration
StuckCheck ==
    /\ pc = "stuck"
    /\ messages' = IF is_stuck(messages) THEN StuckNudge(messages) ELSE messages
    /\ pc' = "loop"
    /\ UNCHANGED <<lastOp, lastArg, state, current_step, tool_calls, tool_cache,
                   final_answer, callIdx, thinkCalls, handlerCalls, handlerLog, lastThink,
                   terminated,
                   criticCalls, criticReply, summarizeCalls,
                   llmVars, extVars>>

Next ==
    \/ \E request \in Requests : Run(request)
    \/ LoopHead
    \/ \E text \in RespTexts, calls \in RespCalls : Think(text, calls)
    \/ ThinkRaises
    \/ \E run \in AllHandlerRuns \cup {NoRun} : ExecCall(run)
    \/ \E reply \in CriticReplies : Critic(reply)
    \/ CriticRaises
    \/ StuckCheck

Spec == Init /\ [][Next]_vars

(***************************************************************************)
(* Provider calls, as both ask_tool implementations see them               *)
(***************************************************************************)
LowerChar(c) ==
    CASE c = "A" -> "a" [] c = "B" -> "b" [] c = "C" -> "c" [] c = "D" -> "d"
      [] c = "E" -> "e" [] c = "F" -> "f" [] c = "G" -> "g" [] c = "H" -> "h"
      [] c = "I" -> "i" [] c = "J" -> "j" [] c = "K" -> "k" [] c = "L" -> "l"
      [] c = "M" -> "m" [] c = "N" -> "n" [] c = "O" -> "o" [] c = "P" -> "p"
      [] c = "Q" -> "q" [] c = "R" -> "r" [] c = "S" -> "s" [] c = "T" -> "t"
      [] c = "U" -> "u" [] c = "V" -> "v" [] c = "W" -> "w" [] c = "X" -> "x"
      [] c = "Y" -> "y" [] c = "Z" -> "z" [] OTHER -> c

\* s.lower()
RECURSIVE Lower(_)
Lower(s) ==
    IF s = "" THEN "" ELSE LowerChar(SubSeq(s, 1, 1)) \o Lower(SubSeq(s, 2, Len(s)))

\* agent_core.py: the test any(x in str(e).lower() for x in [...])
IsTransient(text) ==
    \E x \in {"429", "rate limit", "timeout", "connection"} :
        Contains(Lower(text), x)

\* what one chat.completions.create call does: it answers (with or without
\* a usage field) or raises an exception with the text given
ProviderOutcomes ==
    { [ok |-> TRUE, text |-> "", tokens |-> <<>>],
      [ok |-> TRUE, text |-> "", tokens |-> <<3, 1>>],
      [ok |-> FALSE, text |-> "Error code: 429 - Rate limit exceeded", tokens |-> <<>>],
      [ok |-> FALSE, text |-> "Error code: 400 - bad_request", tokens |-> <<>>] }

\* provider 0 is the primary, 1..nbackups are the backups in failover order
ProviderName(p) == IF p = 0 THEN "primary" ELSE "backup_" \o ToString(p)

\* the exception raised by the call made as number n of the request
Exc(p, text, n) == [by |-> ProviderName(p), text |-> text, n |-> n]

\* the response object of the call made as number n of request r
Resp(p, r, n) == [by |-> ProviderName(p), request |-> r, n |-> n]

Returned(resp) == [kind |-> "response", value |-> resp]

Raised(exc) == [kind |-> "error", value |-> exc]

Called(p, outcome) == [by |-> ProviderName(p), ok |-> outcome.ok, text |-> outcome.text]

(***************************************************************************)
(* llm.py: UsageTracker.record_usage, LLM._extract_usage                   *)
(***************************************************************************)
\* by_provider as a sequence of [provider, input_tokens, output_tokens,
\* requests] records in insertion order
record_usage(stats, provider, input_tokens, output_tokens) ==
    IF \E i \in 1..Len(stats) : stats[i].provider = provider
    THEN [i \in 1..Len(stats) |->
            IF stats[i].provider = provider
            THEN [provider |-> provider,
                  input_tokens |-> stats[i].input_tokens + input_tokens,
                  output_tokens |-> stats[i].output_tokens + output_tokens,
                  requests |-> stats[i].requests + 1]
            ELSE stats[i]]
    ELSE Append(stats, [provider |-> provider, input_tokens |-> input_tokens,
                        output_tokens |-> output_tokens, requests |-> 1])

\* tokens is <<>> when the response carries no usage
extract_usage(stats, tokens, provider) ==
    IF tokens # <<>> THEN record_usage(stats, provider, tokens[1], tokens[2])
    ELSE stats

(***************************************************************************)
(* llm.py: ResponseCache                                                   *)
(***************************************************************************)
\* ResponseCache() is built with the default max_size
cache_max_size == 100

\* a lookup that always misses
CacheHas_Never(c, key) == FALSE

\* key in self.cache
CacheHas(c, key) == \E i \in 1..Len(c) : c[i][1] = key

CacheValue(c, key) == c[CHOOSE i \in 1..Len(c) : c[i][1] = key][2]

\* an eviction that drops the newest entry
Evict_Newest(c) == SubSeq(c, 1, Len(c) - 1)

\* ResponseCache.set: del self.cache[next(iter(self.cache))]
Evict(c) == Tail(c)

\* ResponseCache.set on a cache built with max_size: evict at capacity,
\* then assign (an assignment to a key that is present keeps its position)
CacheSetN(c, key, response, max_size) ==
    LET kept == IF Len(c) >= max_size THEN Evict(c) ELSE c
    IN  IF CacheHas(kept, key)
        THEN [i \in 1..Len(kept) |->
                IF kept[i][1] = key THEN <<key, response>> ELSE kept[i]]
        ELSE Append(kept, <<key, response>>)

\* ResponseCache.set of the cache LLM.__init__ builds
CacheSet(c, key, response) == CacheSetN(c, key, response, cache_max_size)

CacheKeys == {"k1", "k2"}

(***************************************************************************)
(* LLMSpec: a session of ask_tool requests on one LLM object.              *)
(*   impl = "llm"   llm.py LLM.ask_tool                                    *)
(*   impl = "core"  agent_core.py LLM.ask_tool under tenacity's retry      *)
(* llm.py reads settings.cache.enabled.  config.py's LegacySettings, the   *)
(* object it imports, has CACHE_ENABLED and no attribute cache, so with    *)
(* it the read raises AttributeError ("missing"); "on" and "off" are a     *)
(* settings object with the cache section of config.py's Settings.         *)
(***************************************************************************)
stop_after_attempt == 2

LLMInit ==
    /\ messages = <<>> /\ lastOp = "init" /\ lastArg = <<>>
    /\ AgentIdle
    /\ ExtIdle
    /\ lpc = "idle"
    /\ impl \in {"llm", "core"}
    /\ nbackups \in 0..MaxBackups
    /\ settingsCache \in IF impl = "llm" THEN {"missing", "on", "off"} ELSE {"off"}
    /\ attempt = 0 /\ bidx = 0 /\ trace = <<>> /\ primaryErr = None
    /\ lresult = None /\ lcache = <<>> /\ reqKey = None /\ requests = 0
    /\ usage = <<>> /\ served = <<>>

\* the caller awaits ask_tool(messages, tools); key is the cache key of the
\* request.  llm.py: the statements before the primary call.
AskTool(key) ==
    /\ lpc \in {"idle", "returned", "raised"}
    /\ requests < MaxRequests
    /\ requests' = requests + 1
    /\ reqKey' = key
    /\ trace' = <<>>
    /\ primaryErr' = None
    /\ bidx' = 0
    /\ attempt' = IF impl = "core" THEN 1 ELSE 0
    /\ IF impl = "llm" /\ settingsCache = "missing"
       THEN /\ lpc' = "raised"
            /\ lresult' = Raised(Exc(0, "AttributeError: cache", 0))
            /\ served' = served
       ELSE IF impl = "llm" /\ settingsCache = "on" /\ CacheHas(lcache, key)
       THEN /\ lpc' = "returned"
            /\ lresult' = Returned(CacheValue(lcache, key))
            /\ served' = Append(served, <<key, CacheValue(lcache, key)>>)
       ELSE /\ lpc' = "primary"
            /\ lresult' = None
            /\ served' = served
    /\ UNCHANGED <<extVars, memVars, agentVars, impl, nbackups, settingsCache, lcache,
                   usage>>

\* llm.py: what follows a failed primary call
LlmAfterPrimaryError(exc) ==
    IF nbackups = 0 THEN [lpc |-> "raised", lresult |-> Raised(exc)]
    ELSE [lpc |-> "backup", lresult |-> None]

\* llm.py ask_tool: the primary call
LlmPrimary(outcome) ==
    /\ impl = "llm" /\ lpc = "primary"
    /\ trace' = Append(trace, Called(0, outcome))
    /\ IF outcome.ok
       THEN LET response == Resp(0, requests, Len(trace) + 1)
            IN  /\ usage' = extract_usage(usage, outcome.tokens, ProviderName(0))
                /\ lcache' = IF settingsCache = "on"
                             THEN CacheSet(lcache, reqKey, response)
                             ELSE lcache
                /\ lpc' = "returned"
                /\ lresult' = Returned(response)
                /\ served' = Append(served, <<reqKey, response>>)
                /\ UNCHANGED <<primaryErr, bidx>>
       ELSE LET e == Exc(0, outcome.text, Len(trace) + 1)
            IN  /\ primaryErr' = e
                /\ lpc' = LlmAfterPrimaryError(e).lpc
                /\ lresult' = LlmAfterPrimaryError(e).lresult
                /\ bidx' = IF nbackups = 0 THEN 0 ELSE 1
                /\ UNCHANGED <<usage, lcache, served>>
    /\ UNCHANGED <<extVars, memVars, agentVars, impl, nbackups, settingsCache, attempt,
                   reqKey, requests>>

\* the exception llm.py raises after the last backup failed
LlmFinalError(be) == primaryErr

\* a backup loop that does not return on success
AfterBackupSuccess_Continue == "backup"

\* where the backup loop goes after a backup answered: return response
AfterBackupSuccess == "returned"

\* llm.py ask_tool: one iteration of the backup loop
LlmBackup(outcome) ==
    /\ impl = "llm" /\ lpc = "backup"
    /\ trace' = Append(trace, Called(bidx, outcome))
    /\ IF outcome.ok
       THEN /\ usage' = extract_usage(usage, outcome.tokens, ProviderName(bidx))
            /\ lpc' = AfterBackupSuccess
            /\ lresult' = Returned(Resp(bidx, requests, Len(trace) + 1))
            /\ served' = Append(served,
                                <<reqKey, Resp(bidx, requests, Len(trace) + 1)>>)
            /\ bidx' = bidx
       ELSE /\ usage' = usage
            /\ served' = served
            /\ IF bidx < nbackups
               THEN /\ bidx' = bidx + 1
                    /\ lpc' = "backup"
                    /\ lresult' = None
               ELSE /\ bidx' = bidx
                    /\ lpc' = "raised"
                    /\ lresult' = Raised(LlmFinalError(
                                     Exc(bidx, outcome.text, Len(trace) + 1)))
    /\ UNCHANGED <<extVars, memVars, agentVars, impl, nbackups, settingsCache, attempt,
                   primaryErr, lcache, reqKey, requests>>

\* tenacity: ask_tool raised exc on this attempt.  Before the attempt cap
\* the function is called again; at the cap RetryError is raised (the
\* decorator does not set reraise).
TenacityAfter(exc) ==
    IF attempt < stop_after_attempt
    THEN [lpc |-> "primary", attempt |-> attempt + 1, lresult |-> None]
    ELSE [lpc |-> "raised", attempt |-> attempt,
          lresult |-> Raised([by |-> "tenacity", text |-> "RetryError",
                              n |-> exc.n])]

\* agent_core.py: the primary's error is re-raised without failover
CoreReraises(text) == nbackups = 0 \/ ~IsTransient(text)

\* agent_core.py ask_tool: the primary call
CorePrimary(outcome) ==
    /\ impl = "core" /\ lpc = "primary"
    /\ trace' = Append(trace, Called(0, outcome))
    /\ IF outcome.ok
       THEN /\ lpc' = "returned"
            /\ lresult' = Returned(Resp(0, requests, Len(trace) + 1))
            /\ served' = Append(served,
                                <<reqKey, Resp(0, requests, Len(trace) + 1)>>)
            /\ UNCHANGED <<attempt, bidx, primaryErr>>
       ELSE LET e == Exc(0, outcome.text, Len(trace) + 1)
            IN  /\ primaryErr' = e
                /\ served' = served
                /\ IF CoreReraises(outcome.text)
                   THEN /\ lpc' = TenacityAfter(e).lpc
                        /\ attempt' = TenacityAfter(e).attempt
                        /\ lresult' = TenacityAfter(e).lresult
                        /\ bidx' = 0
                   ELSE /\ lpc' = "backup"
                        /\ bidx' = 1
                        /\ UNCHANGED <<attempt, lresult>>
    /\ UNCHANGED <<extVars, memVars, agentVars, impl, nbackups, settingsCache, lcache,
                   reqKey, usage, requests>>

\* agent_core.py ask_tool: one iteration of the backup loop
CoreBackup(outcome) ==
    /\ impl = "core" /\ lpc = "backup"
    /\ trace' = Append(trace, Called(bidx, outcome))
    /\ IF outcome.ok
       THEN /\ lpc' = AfterBackupSuccess
            /\ lresult' = Returned(Resp(bidx, requests, Len(trace) + 1))
            /\ served' = Append(served,
                                <<reqKey, Resp(bidx, requests, Len(trace) + 1)>>)
            /\ UNCHANGED <<attempt, bidx>>
       ELSE IF bidx < nbackups
       THEN /\ bidx' = bidx + 1
            /\ lpc' = "backup"
            /\ UNCHANGED <<attempt, lresult, served>>
       ELSE LET e == [by |-> "ask_tool",
                      text |-> "All providers failed for ask_tool.",
                      n |-> Len(trace) + 1]
            IN  /\ lpc' = TenacityAfter(e).lpc
                /\ attempt' = TenacityAfter(e).attempt
                /\ lresult' = TenacityAfter(e).lresult
                /\ served' = served
                /\ bidx' = 0
    /\ UNCHANGED <<extVars, memVars, agentVars, impl, nbackups, settingsCache, primaryErr,
                   lcache, reqKey, usage, requests>>

LLMNext ==
    \/ \E key \in CacheKeys : AskTool(key)
    \/ \E outcome \in ProviderOutcomes : LlmPrimary(outcome)
    \/ \E outcome \in ProviderOutcomes : LlmBackup(outcome)
    \/ \E outcome \in ProviderOutcomes : CorePrimary(outcome)
    \/ \E outcome \in ProviderOutcomes : CoreBackup(outcome)

LLMSpec == LLMInit /\ [][LLMNext]_vars

(***************************************************************************)
(* CacheSpec: any sequence of set calls on one ResponseCache(max_size)     *)
(***************************************************************************)
\* ResponseCache(max_size = small_max_size)
small_max_size == 3

SetKeys == {"k1", "k2", "k3", "k4"}

SetResponses == {"r1", "r2"}

CacheInit ==
    /\ messages = <<>>
    /\ lastOp = "init"
    /\ lastArg = <<>>
    /\ AgentIdle
    /\ ExtIdle
    /\ LLMIdle

\* ResponseCache.set(messages, response, tools), key being _make_key's value
CacheSetOp(key, response) ==
    /\ lcache' = CacheSetN(lcache, key, response, small_max_size)
    /\ lastOp' = IF Len(lcache) >= small_max_size THEN "evict" ELSE "set"
    /\ UNCHANGED <<extVars, messages, lastArg, agentVars, lpc, impl, nbackups, settingsCache,
                   attempt, bidx, trace, primaryErr, lresult, reqKey, usage,
                   requests, served>>

CacheNext == \E key \in SetKeys, response \in SetResponses : CacheSetOp(key, response)

CacheSpec == CacheInit /\ [][CacheNext]_vars

(***************************************************************************)
(* PlanSpec: tools/planning.py, PlanningTool.execute: any sequence of      *)
(* create, update, mark_step and delete commands on one tool instance.     *)
(* A plan is kept as its statuses and dependencies; titles, step texts,    *)
(* notes and priorities do not enter any decision of execute.              *)
(***************************************************************************)
\* most steps a plan is created with or updated to
MaxPlanSteps == 2

PlanIds == {"default"}

\* values of step_status the model passes (execute stores any string)
Statuses == {"not_started", "in_progress", "completed", "blocked"}

\* values of depends_on: ascending lists of 0-based step indices
DepLists ==
    { d \in UNION { [1..n -> 0..(MaxPlanSteps - 1)] : n \in 0..MaxPlanSteps } :
        \A i \in 1..(Len(d) - 1) : d[i] < d[i + 1] }

\* ["x"] * n
Times(x, n) == [i \in 1..n |-> x]

\* what execute gives: the plans afterwards and whether it returned an
\* error text ("error"), returned normally ("ok") or raised ("raise")
PlanOutcome(pl, result) == [plans |-> pl, result |-> result]

\* command == "create"; nsteps is len(steps), no goal is given
create(pl, plan_id, nsteps, has_deps, depends_on) ==
    IF nsteps = 0 THEN PlanOutcome(pl, "error")
    ELSE PlanOutcome(
           (plan_id :> [statuses     |-> Times("not_started", nsteps),
                        dependencies |-> Times(IF has_deps THEN depends_on
                                               ELSE <<>>, nsteps)]) @@ pl,
           "ok")

\* command == "update"; nsteps is len(kwargs["steps"])
update(pl, plan_id, has_steps, nsteps) ==
    IF plan_id \notin DOMAIN pl THEN PlanOutcome(pl, "error")
    ELSE IF ~has_steps THEN PlanOutcome(pl, "ok")
    ELSE LET plan == pl[plan_id]
             diff == nsteps - Len(plan.statuses)
             new  == IF diff > 0
                     THEN [statuses     |-> plan.statuses
                                            \o Times("not_started", diff),
                           dependencies |-> plan.dependencies
                                            \o Times(<<>>, diff)]
                     ELSE [statuses     |-> SubSeq(plan.statuses, 1, nsteps),
                           dependencies |-> SubSeq(plan.dependencies, 1, nsteps)]
         IN  PlanOutcome((plan_id :> new) @@ pl, "ok")

\* the dependency check of mark_step, from position k of deps on: "ok",
\* the error return, or the IndexError of plan["statuses"][dep_idx]
RECURSIVE CheckDeps(_, _, _)
CheckDeps(plan, deps, k) ==
    IF k > Len(deps) THEN "ok"
    ELSE IF deps[k] >= Len(plan.statuses) THEN "raise"
    ELSE IF plan.statuses[deps[k] + 1] # "completed" THEN "error"
    ELSE CheckDeps(plan, deps, k + 1)

\* mark_step: the check made before in_progress or completed is stored
DepsChecked(plan, idx, new_status) ==
    IF new_status \in {"in_progress", "completed"}
    THEN CheckDeps(plan, plan.dependencies[idx + 1], 1)
    ELSE "ok"

\* command == "mark_step"; a call without step_index gets the error
\* return of an index out of range
mark_step(pl, plan_id, idx, has_status, step_status, has_deps, depends_on) ==
    IF plan_id \notin DOMAIN pl THEN PlanOutcome(pl, "error")
    ELSE LET plan == pl[plan_id]
         IN  IF ~(0 <= idx /\ idx < Len(plan.statuses))
             THEN PlanOutcome(pl, "error")
             ELSE LET new_status == IF has_status THEN step_status ELSE ""
                      checked    == DepsChecked(plan, idx, new_status)
                      new == [statuses |->
                                IF has_status
                                THEN [plan.statuses EXCEPT ![idx + 1] = step_status]
                                ELSE plan.statuses,
                              dependencies |->
                                IF has_deps
                                THEN [plan.dependencies EXCEPT ![idx + 1] = depends_on]
                                ELSE plan.dependencies]
                  IN  IF checked # "ok" THEN PlanOutcome(pl, checked)
                      ELSE PlanOutcome((plan_id :> new) @@ pl, "ok")

\* command == "delete"
delete(pl, plan_id) ==
    IF plan_id \in DOMAIN pl
    THEN PlanOutcome([i \in DOMAIN pl \ {plan_id} |-> pl[i]], "ok")
    ELSE PlanOutcome(pl, "error")

\* a tool instance as PlanningTool() constructs it
PlanInit ==
    /\ messages = <<>>
    /\ lastOp = "init"
    /\ lastArg = <<>>
    /\ AgentIdle
    /\ LLMIdle
    /\ agents = <<>> /\ heap = <<>> /\ listeners = <<>> /\ instances_count = 0
    /\ chunks = <<>>
    /\ plans = <<>>
    /\ plan_result = None

\* what a call of execute leaves alone
PlanFrame ==
    UNCHANGED <<messages, lastArg, agentVars, llmVars, agents, heap, listeners,
                instances_count, chunks>>

PlanCreate(plan_id, nsteps, has_deps, depends_on) ==
    LET o == create(plans, plan_id, nsteps, has_deps, depends_on)
    IN  /\ plans' = o.plans
        /\ plan_result' = o.result
        /\ lastOp' = "create"
        /\ PlanFrame

PlanUpdate(plan_id, has_steps, nsteps) ==
    LET o == update(plans, plan_id, has_steps, nsteps)
    IN  /\ plans' = o.plans
        /\ plan_result' = o.result
        /\ lastOp' = "update"
        /\ PlanFrame

PlanMarkStep(plan_id, idx, has_status, step_status, has_deps, depends_on) ==
    LET o == mark_step(plans, plan_id, idx, has_status, step_status,
                       has_deps, depends_on)
    IN  /\ plans' = o.plans
        /\ plan_result' = o.result
        /\ lastOp' = "mark_step"
        /\ PlanFrame

PlanDelete(plan_id) ==
    LET o == delete(plans, plan_id)
    IN  /\ plans' = o.plans
        /\ plan_result' = o.result
        /\ lastOp' = "delete"
        /\ PlanFrame

\* the depends_on and step_status arguments of a call: absent or given
DepArgs == {<<FALSE, <<>>>>} \cup { <<TRUE, d>> : d \in DepLists }

StatusArgs == {<<FALSE, "">>} \cup { <<TRUE, st>> : st \in Statuses }

StepsArgs == {<<FALSE, 0>>} \cup { <<TRUE, n>> : n \in 0..MaxPlanSteps }

PlanNext ==
    \/ \E plan_id \in PlanIds, nsteps \in 0..MaxPlanSteps, d \in DepArgs :
          PlanCreate(plan_id, nsteps, d[1], d[2])
    \/ \E plan_id \in PlanIds, n \in StepsArgs :
          PlanUpdate(plan_id, n[1], n[2])
    \/ \E plan_id \in PlanIds, idx \in (-1)..MaxPlanSteps, st \in StatusArgs,
          d \in DepArgs :
          PlanMarkStep(plan_id, idx, st[1], st[2], d[1], d[2])
    \/ \E plan_id \in PlanIds : PlanDelete(plan_id)

PlanSpec == PlanInit /\ [][PlanNext]_vars

(***************************************************************************)
(* StreamSpec: ask_tool_stream of either LLM class, consumed to its end.   *)
(* The function is an async generator: calling it raises nothing, so the   *)
(* tenacity decorator around it never sees an exception and retries        *)
(* nothing; an exception reaches the consumer while it iterates.           *)
(***************************************************************************)
\* most chunks one provider response is streamed in
MaxChunks == 2

\* what one streaming chat.completions.create call does: it yields some
\* chunks and then ends, or raises with the text given
StreamOutcomes ==
    { [ok |-> TRUE, text |-> "", yielded |-> k] : k \in 1..MaxChunks }
    \cup { [ok |-> FALSE, text |-> t, yielded |-> k] :
             t \in {"Error code: 429 - Rate limit exceeded",
                    "Error code: 400 - bad_request"},
             k \in 0..MaxChunks }

\* chunk i of the response of provider p
Chunk(p, i) == [by |-> ProviderName(p), i |-> i]

\* async for chunk in response: yield chunk
Yielded(p, outcome) == [i \in 1..outcome.yielded |-> Chunk(p, i)]

StreamInit ==
    /\ messages = <<>> /\ lastOp = "init" /\ lastArg = <<>>
    /\ AgentIdle
    /\ ExtIdle
    /\ lpc = "primary"
    /\ impl \in {"llm", "core"}
    /\ nbackups \in 0..MaxBackups
    /\ settingsCache = "off"
    /\ attempt = 0 /\ bidx = 0 /\ trace = <<>> /\ primaryErr = None
    /\ lresult = None /\ lcache = <<>> /\ reqKey = None /\ requests = 0
    /\ usage = <<>> /\ served = <<>>

\* what the stream actions leave alone
StreamFrame ==
    UNCHANGED <<memVars, agentVars, impl, nbackups, settingsCache, attempt,
                primaryErr, lcache, reqKey, usage, requests, served, agents,
                heap, listeners, instances_count, plans, plan_result>>

\* ask_tool_stream: the primary call and its except clause
StreamPrimary(outcome) ==
    /\ lpc = "primary"
    /\ trace' = Append(trace, Called(0, outcome))
    /\ chunks' = chunks \o Yielded(0, outcome)
    /\ IF outcome.ok
       THEN lpc' = "returned" /\ lresult' = None /\ bidx' = 0
       ELSE IF nbackups = 0 \/ ~IsTransient(outcome.text)
       THEN /\ lpc' = "raised"
            /\ lresult' = Raised(Exc(0, outcome.text, 1))
            /\ bidx' = 0
       ELSE lpc' = "backup" /\ lresult' = None /\ bidx' = 1
    /\ StreamFrame

\* ask_tool_stream: one iteration of the backup loop
StreamBackup(outcome) ==
    /\ lpc = "backup"
    /\ trace' = Append(trace, Called(bidx, outcome))
    /\ chunks' = chunks \o Yielded(bidx, outcome)
    /\ IF outcome.ok
       THEN lpc' = "returned" /\ lresult' = None /\ bidx' = bidx
       ELSE IF bidx < nbackups
       THEN lpc' = "backup" /\ lresult' = None /\ bidx' = bidx + 1
       ELSE /\ lpc' = "raised"
            /\ lresult' = Raised([by |-> "ask_tool_stream",
                                  text |-> "All LLM providers failed.",
                                  n |-> Len(trace) + 1])
            /\ bidx' = bidx
    /\ StreamFrame

StreamNext ==
    \/ \E outcome \in StreamOutcomes : StreamPrimary(outcome)
    \/ \E outcome \in StreamOutcomes : StreamBackup(outcome)

StreamSpec == StreamInit /\ [][StreamNext]_vars

(***************************************************************************)
(* TwoSpec: two agent instances, each with an llm.py LLM of its own, whose *)
(* operations interleave.  An instance holds references; the objects they  *)
(* refer to are in heap, so that two instances holding one object would    *)
(* show.  EventBus._listeners and LLM._instances_count are attributes of   *)
(* their classes, one for all instances.                                   *)
(***************************************************************************)
AgentIds == {1, 2}

\* most steps an agent of the pair takes
MaxPairSteps == 1

\* the objects of class cls in h
ObjectsOf(h, cls) == { id \in DOMAIN h : id[1] = cls }

\* a default that is one object for every instance
NewObject_Shared(h, cls) == <<cls, 1>>

\* Field(default_factory=cls) and self.x = cls(): a new object each time
NewObject(h, cls) == <<cls, Cardinality(ObjectsOf(h, cls)) + 1>>

\* h with the object id, empty as its constructor leaves it, when new
WithObject(h, id) ==
    IF id \in DOMAIN h THEN h
    ELSE (id :> (IF id[1] = "dict" THEN {} ELSE <<>>)) @@ h

\* what the instance a sees of the objects it holds
View(a) ==
    [memory        |-> heap[agents[a].memory],
     tool_cache    |-> heap[agents[a].tool_cache],
     cache         |-> heap[agents[a].cache],
     usage_tracker |-> heap[agents[a].usage_tracker],
     state         |-> agents[a].state,
     current_step  |-> agents[a].current_step]

\* the objects the instance a holds
Refs(a) ==
    {agents[a].memory, agents[a].tool_cache, agents[a].cache,
     agents[a].usage_tracker}

\* bus = EventBus() at import; no instance exists
PairInit ==
    /\ messages = <<>> /\ lastOp = "init" /\ lastArg = <<>>
    /\ AgentIdle
    /\ LLMIdle
    /\ agents = <<>>
    /\ heap = <<>>
    /\ listeners = <<>>
    /\ instances_count = 0
    /\ chunks = <<>> /\ plans = <<>> /\ plan_result = None

\* what the operations of an instance leave alone
PairFrame ==
    UNCHANGED <<messages, agentVars, llmVars, chunks, plans, plan_result>>

\* the constructors: BaseAgent's fields get their defaults, LLM.__init__
\* makes its tracker and cache and counts the instance
NewAgent(a) ==
    /\ a \notin DOMAIN agents
    /\ LET m  == NewObject(heap, "Memory")
           tc == NewObject(heap, "dict")
           rc == NewObject(heap, "ResponseCache")
           ut == NewObject(heap, "UsageTracker")
       IN  /\ heap' = WithObject(WithObject(WithObject(WithObject(heap, m),
                                                       tc), rc), ut)
           /\ agents' = (a :> [memory |-> m, tool_cache |-> tc, cache |-> rc,
                               usage_tracker |-> ut, state |-> IDLE,
                               current_step |-> 0]) @@ agents
    /\ instances_count' = instances_count + 1
    /\ lastOp' = "new"
    /\ lastArg' = <<a>>
    /\ UNCHANGED listeners
    /\ PairFrame

\* run: the statements before the loop
PairRun(a, request) ==
    /\ a \in DOMAIN agents
    /\ agents[a].state = IDLE
    /\ agents' = [agents EXCEPT ![a].state = RUNNING, ![a].current_step = 0]
    /\ heap' = [heap EXCEPT ![agents[a].memory] =
                  add_message(@, user_message(request), max_messages)]
    /\ lastOp' = "run"
    /\ lastArg' = <<a>>
    /\ UNCHANGED <<listeners, instances_count>>
    /\ PairFrame

\* one think call: EventBus.publish reads the listeners, ask_tool records
\* the usage and caches the response, step_stream adds the assistant message
PairThink(a, text) ==
    /\ a \in DOMAIN agents
    /\ agents[a].state = RUNNING
    /\ agents[a].current_step < MaxPairSteps
    /\ agents' = [agents EXCEPT ![a].current_step = NextStep(@)]
    /\ heap' = [heap EXCEPT
                  ![agents[a].usage_tracker] = record_usage(@, "primary", 3, 1),
                  ![agents[a].cache] = CacheSet(@, text, text),
                  ![agents[a].memory] =
                      add_message(@, assistant_message(text), max_messages)]
    /\ lastOp' = "think"
    /\ lastArg' = <<a>>
    /\ UNCHANGED <<listeners, instances_count>>
    /\ PairFrame

\* one tool call of the step: its result is cached and added to memory
PairExec(a, result) ==
    /\ a \in DOMAIN agents
    /\ agents[a].state = RUNNING
    /\ heap[agents[a].memory] # <<>>
    /\ heap[agents[a].memory][Len(heap[agents[a].memory])].role = ASSISTANT
    /\ heap' = [heap EXCEPT
                  ![agents[a].tool_cache] =
                      @ \cup {<<cache_key("terminal", "{}"), result>>},
                  ![agents[a].memory] =
                      add_message(@, tool_message(result, "terminal", CallId(1)),
                                  max_messages)]
    /\ agents' = agents
    /\ lastOp' = "exec"
    /\ lastArg' = <<a>>
    /\ UNCHANGED <<listeners, instances_count>>
    /\ PairFrame

\* run: the finally clause
PairFinish(a) ==
    /\ a \in DOMAIN agents
    /\ agents[a].state = RUNNING
    /\ agents' = [agents EXCEPT ![a].state = FINISHED]
    /\ lastOp' = "finish"
    /\ lastArg' = <<a>>
    /\ UNCHANGED <<heap, listeners, instances_count>>
    /\ PairFrame

PairNext ==
    \/ \E a \in AgentIds : NewAgent(a)
    \/ \E a \in AgentIds, request \in {"A", "B"} : PairRun(a, request)
    \/ \E a \in AgentIds, text \in {"A", "B"} : PairThink(a, text)
    \/ \E a \in AgentIds, result \in {"A", "B"} : PairExec(a, result)
    \/ \E a \in AgentIds : PairFinish(a)

TwoSpec == PairInit /\ [][PairNext]_vars

(***************************************************************************)
(* Claims                                                                  *)
(***************************************************************************)
\* wider than the ranks of the positions inside one iteration
RankWidth == MaxCalls + 5

\* A measure of the work left in run: it is positive until run has
\* returned and every step of the loop lowers it.
Rank ==
    CASE pc = "idle"   -> (max_steps + 1) * RankWidth
      [] pc = "loop"   -> (max_steps - current_step) * RankWidth + 1
      [] pc = "think"  -> (max_steps - current_step) * RankWidth + RankWidth
      [] pc = "exec"   -> (max_steps - current_step) * RankWidth
                          + 4 + Len(tool_calls) - callIdx
      [] pc = "critic" -> (max_steps - current_step) * RankWidth + 3
      [] pc = "stuck"  -> (max_steps - current_step) * RankWidth + 2
      [] OTHER         -> 0

\* C1: one invocation of run issues at most max_steps think calls and
\* terminates, whatever the provider and the tools do: current_step and the
\* number of ask_tool requests never exceed max_steps, and every step of the
\* run lowers a measure that is never negative, so no run goes on forever.
C1_StepBound ==
    /\ [](/\ current_step <= max_steps
          /\ thinkCalls <= max_steps
          /\ thinkCalls <= current_step
          /\ Rank >= 0
          /\ (Rank = 0 <=> pc = "done"))
    /\ [][Rank' < Rank]_vars

\* the budget is used up: max_steps think calls were made and run returned
C1_Witness ==
    pc = "done" /\ thinkCalls = max_steps /\ current_step = max_steps
    /\ lastThink = "calls"

\* the tool messages between position k and the next assistant message
\* that answer id
Answers(k, id) ==
    { t \in (k + 1)..Len(messages) :
        /\ messages[t].role = TOOL
        /\ messages[t].tool_call_id = id
        /\ \A u \in (k + 1)..t : messages[u].role # ASSISTANT }

\* C2: between steps, every call of every assistant message with tool_calls
\* is answered by exactly one later tool message carrying its id, placed
\* before the next assistant message.
C2_Pairing ==
    pc \in {"loop", "done"} =>
        \A k \in 1..Len(messages) :
            \A j \in 1..Len(messages[k].tool_calls) :
                Cardinality(Answers(k, messages[k].tool_calls[j].id)) = 1

\* C3: the number of messages in Memory never exceeds 2 * max_messages.
C3_HardLimit == Len(messages) <= 2 * mem_max_messages

\* C4: right after summarize returns, Memory holds at most max_messages
\* plus a constant (the recent window and the summary message) messages.
C4_SummarizeBound ==
    lastOp = "summarize" => Len(messages) <= mem_max_messages + keep_recent + 1

\* C5: Memory never holds two adjacent messages of equal role and content
\* that both carry no tool_calls.
C5_NoAdjacentDuplicates ==
    \A i \in 1..(Len(messages) - 1) :
        ~ /\ messages[i].role = messages[i + 1].role
          /\ messages[i].content = messages[i + 1].content
          /\ messages[i].tool_calls = <<>>
          /\ messages[i + 1].tool_calls = <<>>

\* C6: once a terminate call has executed, the state is FINISHED and the
\* output argument of the call is the agent's final_answer.
C6_TerminateCaptured ==
    terminated # None => state = FINISHED /\ final_answer = terminated

\* C7: after a think step that returned no tool calls, no handler was
\* invoked, the state is FINISHED, no further think call is pending and
\* memory ends with the assistant message of that response.
C7_ContentOnlyFinishes ==
    (lastThink = "content" /\ pc \in {"critic", "stuck", "loop", "done"}) =>
        /\ state = FINISHED
        /\ handlerCalls = 0
        /\ messages # <<>>
        /\ messages[Len(messages)].role = ASSISTANT
        /\ messages[Len(messages)].tool_calls = <<>>

\* call i of the request failed with a transient error on the primary
PrimaryFailed(i, transient) ==
    /\ trace[i].by = ProviderName(0)
    /\ ~trace[i].ok
    /\ IsTransient(trace[i].text) = transient

\* C8: when the primary raises a transient error and the first backup then
\* answers, the request returns that backup's response and no further
\* provider is called.
C8_FailoverStopsAtFirstSuccess ==
    \A i \in 1..(Len(trace) - 1) :
        (/\ PrimaryFailed(i, TRUE)
         /\ trace[i + 1].by = ProviderName(1)
         /\ trace[i + 1].ok)
        => /\ i + 1 = Len(trace)
           /\ lpc = "returned"
           /\ lresult = Returned(Resp(1, requests, i + 1))

\* three providers, the primary failed with a rate limit, backup_1 answered
C8_Witness ==
    /\ nbackups = 2
    /\ Len(trace) = 2
    /\ PrimaryFailed(1, TRUE)
    /\ trace[2].by = ProviderName(1) /\ trace[2].ok
    /\ lpc = "returned"

\* C9: when the primary raises an error that is not transient, no backup is
\* called and the caller receives that same error.
C9_NonTransientAborts ==
    \A i \in 1..Len(trace) :
        PrimaryFailed(i, FALSE)
        => /\ i = Len(trace)
           /\ lpc = "raised"
           /\ lresult = Raised(Exc(0, trace[i].text, i))

\* C10: when the primary and every backup failed during one request, the
\* caller receives the error of the provider that was tried last.
C10_LastErrorSurfaces ==
    (/\ lpc = "raised"
     /\ trace # <<>>
     /\ \A i \in 1..Len(trace) : ~trace[i].ok
     /\ \A q \in 0..nbackups : \E i \in 1..Len(trace) : trace[i].by = ProviderName(q))
    => lresult = Raised([by |-> trace[Len(trace)].by,
                         text |-> trace[Len(trace)].text,
                         n |-> Len(trace)])

\* C11: with the cache enabled, two requests of one session with the same
\* cache key return the same response object, whichever provider answered
\* the first of them.
C11_SameKeySameResponse ==
    settingsCache = "on" =>
        \A i, j \in 1..Len(served) :
            served[i][1] = served[j][1] => served[i][2] = served[j][2]

\* C12: with the cache enabled, a request whose key is in the cache returns
\* the cached response at once: no provider is called, and the usage record
\* and the cache contents stay as they were.
C12_HitSkipsProviders ==
    [][(/\ settingsCache = "on"
        /\ requests' = requests + 1
        /\ \E i \in 1..Len(lcache) : lcache[i][1] = reqKey')
       => /\ lpc' = "returned"
          /\ \E i \in 1..Len(lcache) :
                lcache[i][1] = reqKey' /\ lresult' = Returned(lcache[i][2])
          /\ trace' = <<>>
          /\ usage' = usage
          /\ lcache' = lcache]_vars

\* the second request of a session was served from the cache
C12_Witness ==
    /\ settingsCache = "on"
    /\ requests = 2
    /\ lpc = "returned"
    /\ trace = <<>>
    /\ lresult = Returned(Resp(0, 1, 1))
    /\ usage # <<>>

\* the keys of a cache
KeysOf(c) == { c[i][1] : i \in 1..Len(c) }

\* C13: the cache never holds more than max_size entries, and an insertion
\* that makes a key leave the cache removes the key that was inserted
\* earliest among those present.
C13_BoundedFifo ==
    /\ [](/\ Len(lcache) <= small_max_size
          /\ Cardinality(KeysOf(lcache)) = Len(lcache))
    /\ [][\A i \in 1..Len(lcache) :
            lcache[i][1] \notin KeysOf(lcache') => i = 1]_vars

\* a full cache took a new key and its oldest key is gone
C13_Witness ==
    /\ lastOp = "evict"
    /\ Len(lcache) = small_max_size
    /\ KeysOf(lcache) = {"k2", "k3", "k4"}
    /\ lcache[small_max_size][1] = "k4"

\* text holds one of the sentinel patterns of sanitize_content
HasSentinel(text) ==
    \/ \E i \in 1..Len(text) : StartsAt(text, i, "<|") /\ CloseAt(text, i + 2) # 0
    \/ \E p \in {"[INST]", "[/INST]", "<<SYS>>", "<|im_start|>", "<|im_end|>",
                 "<|end_header_id|>", "<|start_header_id|>"} :
          \E i \in 1..Len(text) : StartsAt(text, i, p)

\* C14: no serialized outgoing message holds a sentinel pattern, whatever
\* the content of the message in memory is.
C14_NoSentinelOnWire ==
    \A i \in 1..Len(messages) :
        ~HasSentinel(to_dict_list(messages)[i].content)

\* C15: no tool message in memory is longer than max_result_len, whatever
\* the handler returned.
C15_ToolContentBounded ==
    \A i \in 1..Len(messages) :
        messages[i].role = TOOL => Len(messages[i].content) <= max_result_len

\* memory holds the shortened form of a result longer than max_result_len
C15_Witness ==
    \E i \in 1..Len(messages) :
        /\ messages[i].role = TOOL
        /\ Len(messages[i].content) > 2 * keep_head
        /\ \E e \in tool_cache : Len(e[2]) > max_result_len

\* the executor loop has just recorded a call
AfterCall ==
    \/ pc = "exec" /\ callIdx > 1
    \/ pc = "critic" /\ tool_calls # <<>>

\* the call the executor loop recorded last
LastCall == tool_calls[IF pc = "exec" THEN callIdx - 1 ELSE Len(tool_calls)]

\* the result the dispatch of the last call gave, as tool_cache keeps it
LastRaw ==
    (CHOOSE e \in tool_cache :
        e[1] = LastCall.name \o ":" \o LastCall.arguments)[2]

\* C16: a result longer than max_result_len is stored as its first 4000
\* characters, the truncation marker and its last 4000 characters; a
\* result that is not longer is stored unchanged.
C16_HeadMarkerTail ==
    (AfterCall /\ JsonValid(LastCall.arguments)) =>
        LET raw    == LastRaw
            stored == messages[Len(messages)]
        IN  /\ stored.role = TOOL
            /\ IF Len(raw) > 10000
               THEN stored.content =
                      SubSeq(raw, 1, 4000)
                      \o "\n\n... [TRUNCATED " \o ToString(Len(raw) - 8000)
                      \o " CHARS] ...\n\n"
                      \o SubSeq(raw, Len(raw) - 3999, Len(raw))
               ELSE stored.content = raw

\* the last call returned LongResult and memory ends with its short form
C16_Witness ==
    /\ AfterCall
    /\ JsonValid(LastCall.arguments)
    /\ LastRaw = LongResult
    /\ messages[Len(messages)].content # LongResult
    /\ Len(messages[Len(messages)].content) = 8034

\* the handler raised on every attempt execute made
RaisedEveryAttempt == handlerLog = [i \in 1..3 |-> "raise"]

\* C17: dispatching a call never ends the run: an unknown tool name and a
\* handler that raises on every attempt each leave an error text as the
\* tool message at the end of memory, the state is as it was and the loop
\* goes on to the next call or to the critic.
C17_DispatchNeverRaises ==
    /\ [][pc = "exec" =>
            /\ pc' \in {"exec", "critic"}
            /\ state' = state \/ tool_calls[callIdx].name = "terminate"]_vars
    /\ []((AfterCall /\ JsonValid(LastCall.arguments)) =>
            LET last == messages[Len(messages)]
            IN  /\ LastCall.name \notin RegisteredTools =>
                     /\ last.role = TOOL
                     /\ last.content = "Error: Tool " \o LastCall.name \o " not found"
                /\ RaisedEveryAttempt =>
                     /\ last.role = TOOL
                     /\ last.content = "Error executing " \o LastCall.name \o ": boom")

\* a turn called an unknown tool and then a tool whose handler raised on
\* every attempt; both error texts are in memory and the run goes on
C17_Witness ==
    /\ pc = "critic"
    /\ state = RUNNING
    /\ Len(tool_calls) = 2
    /\ tool_calls[1].name = "nope"
    /\ RaisedEveryAttempt
    /\ Len(messages) >= 2
    /\ messages[Len(messages)].content = "Error executing terminal: boom"
    /\ messages[Len(messages) - 1].content = "Error: Tool nope not found"

\* C18: one dispatch invokes the handler at most 3 times, and every
\* invocation but the last one raised: a returned value, error result or
\* not, ends the dispatch.
C18_BoundedRetry ==
    /\ Len(handlerLog) <= 3
    /\ handlerCalls = Len(handlerLog)
    /\ \A i \in 1..(Len(handlerLog) - 1) : handlerLog[i] = "raise"

\* the handler returned an error result by value and was not invoked again
C18_Witness ==
    /\ AfterCall
    /\ handlerLog = <<"Error: command failed">>
    /\ messages[Len(messages)].content = "Error: command failed"

\* the text step_stream records for a call whose arguments do not parse
InvalidJsonText(name) ==
    "Error: Invalid JSON arguments provided for tool " \o name \o "."

\* C19: a call whose arguments are not valid JSON invokes no handler and
\* leaves exactly one tool message with the error text and the id of that
\* call at the end of memory.
C19_InvalidJsonRecorded ==
    (AfterCall /\ ~JsonValid(LastCall.arguments)) =>
        /\ handlerLog = <<>>
        /\ messages[Len(messages)] =
             tool_message(InvalidJsonText(LastCall.name), LastCall.name, LastCall.id)

TwoIdenticalAssistant(msgs) ==
    LET last4 == LastN(msgs, 4)
    IN  \E i, j \in 1..Len(last4) :
            /\ i # j
            /\ last4[i].role = ASSISTANT
            /\ last4[j].role = ASSISTANT
            /\ last4[i].content = last4[j].content

\* C21: on a memory of at least four messages is_stuck returns true if and
\* only if two assistant messages among the last four have identical
\* contents, also when a third assistant message of another content is
\* among them.
C21_StuckIffTwoIdentical ==
    (Len(messages) >= 4 /\ lastOp \in {"stuck", "not stuck"}) =>
        (lastOp = "stuck" <=> TwoIdenticalAssistant(messages))

\* how many nudge messages a memory holds
NudgeCount(msgs) == Len(SelectSeq(msgs, LAMBDA m : m = system_message(Nudge)))

\* C22: when the stuck check at the end of a step detects a stuck loop,
\* memory gains exactly one nudge message, state and step counter stay as
\* they were and the run goes back to the loop head.
C22_OneNudgeNoTermination ==
    [][(pc = "stuck" /\ is_stuck(messages)) =>
          /\ NudgeCount(messages') = NudgeCount(messages) + 1
          /\ state' = state
          /\ current_step' = current_step
          /\ pc' = "loop"]_vars

\* a stuck loop was detected after the first step: the nudge ends memory,
\* the agent is RUNNING and the second think call is about to be made
C22_Witness ==
    /\ pc = "think"
    /\ current_step = 2
    /\ thinkCalls = 1
    /\ state = RUNNING
    /\ messages[Len(messages)] = system_message(Nudge)
    /\ NudgeCount(messages) = 1

\* the assistant messages of a memory, in order
AssistantsOf(msgs) == SelectSeq(msgs, LAMBDA m : m.role = ASSISTANT)

\* the last two think calls were answered with the same non-empty content
\* and no tool calls, as memory shows them
RepeatedAnswer ==
    LET a == AssistantsOf(messages)
    IN  /\ Len(a) >= 2
        /\ a[Len(a)].tool_calls = <<>>
        /\ a[Len(a) - 1].tool_calls = <<>>
        /\ a[Len(a)].content = a[Len(a) - 1].content
        /\ a[Len(a)].content # ""

\* C23: when the step that just ended was the second think call in a row
\* answered with the same content and no tool calls, and steps are left,
\* the nudge has been appended and the loop goes on to a further think call
\* whose serialized messages hold the nudge.
C23_RepeatedAnswerRethinks ==
    (pc = "loop" /\ lastThink = "content" /\ current_step < max_steps
     /\ RepeatedAnswer) =>
        /\ messages[Len(messages)] = system_message(Nudge)
        /\ to_dict_list(messages)[Len(messages)].content = Nudge
        /\ LoopContinues

\* the calls of the turn that were handed to the dispatcher
DispatchedCalls == SelectSeq(tool_calls, LAMBDA c : JsonValid(c.arguments))

\* the step left the state not FINISHED and the tool it executed last is
\* not a simple tool
CriticExpected ==
    /\ pc = "critic"
    /\ state # FINISHED
    /\ DispatchedCalls # <<>>
    /\ DispatchedCalls[Len(DispatchedCalls)].name \notin simple_tools

\* what a completed critic pass does with the reply (PROCEED in any case of
\* letters, as the code reads it)
CriticHandled ==
    IF Contains(Upper(criticReply'), "PROCEED")
    THEN messages' = messages
    ELSE /\ messages'[Len(messages')].role = USER
         /\ messages'[Len(messages')].content = "Critic Feedback: " \o criticReply'
         /\ \/ messages' = Append(messages, messages'[Len(messages')])
            \/ Len(messages) + 1 > 2 * max_messages

\* C24: after a step that leaves the state not FINISHED and whose last
\* executed tool is not a simple tool, exactly one critic quick_ask is
\* issued; a reply without PROCEED is appended as one user message, a
\* reply with PROCEED leaves memory as it is.
C24_CriticAfterComplexStep ==
    [][CriticExpected =>
          /\ criticCalls' = criticCalls + 1
          /\ pc' = "stuck" => CriticHandled]_vars

\* C25: every think call of the run was preceded by a call of
\* Memory.summarize made for it, so a memory longer than the threshold has
\* been compacted when the ask_tool request is built.
C25_SummarizeBeforeThink == thinkCalls <= summarizeCalls

\* C26: when summarize is called on more than summarization_threshold
\* messages of which more than 8 are not system messages and quick_ask
\* answers, memory becomes the system messages, then one summary message,
\* then the last 8 other messages as they were and in their order; on at
\* most summarization_threshold messages summarize changes nothing.
C26_SummaryShape ==
    [][lastOp' = "summarize" =>
        LET sys == SelectSeq(messages, IsSystem)
            non == SelectSeq(messages, IsNotSystem)
        IN  /\ (/\ Len(messages) > summarization_threshold
                /\ Len(non) > 8
                /\ lastArg'[1] = "text") =>
                  /\ Len(messages') = Len(sys) + 1 + 8
                  /\ SubSeq(messages', 1, Len(sys)) = sys
                  /\ messages'[Len(sys) + 1].role = ASSISTANT
                  /\ messages'[Len(sys) + 1].tool_calls = <<>>
                  /\ StartsAt(messages'[Len(sys) + 1].content, 1, SummaryLabel)
                  /\ SubSeq(messages', Len(sys) + 2, Len(messages'))
                       = SubSeq(non, Len(non) - 7, Len(non))
            /\ Len(messages) <= summarization_threshold => messages' = messages]_vars

\* ten messages with a system message at position 5 were compacted: the
\* system message leads, the summary follows, m1 is gone, m2..m10 remain
C26_Witness ==
    /\ lastOp = "summarize"
    /\ lastArg = <<"text", "S">>
    /\ Len(messages) = 10
    /\ messages[1] = system_message("s5")
    /\ messages[2] = assistant_message(SummaryLabel \o "S")
    /\ messages[3] = assistant_message("m2")
    /\ messages[10] = assistant_message("m10")

\* C27: when quick_ask raises inside summarize, summarize returns and
\* memory is the system messages followed by the last 8 other messages,
\* with no summary message.
C27_FallbackWindow ==
    [][(lastOp' = "summarize" /\ lastArg'[1] = "raise"
        /\ Len(messages) > summarization_threshold) =>
        LET sys == SelectSeq(messages, IsSystem)
            non == SelectSeq(messages, IsNotSystem)
        IN  messages' = sys \o (IF Len(non) > 8
                                THEN SubSeq(non, Len(non) - 7, Len(non))
                                ELSE non)]_vars

\* quick_ask raised on ten messages with a system message at position 5:
\* m1 is gone, no summary message was added
C27_Witness ==
    /\ lastOp = "summarize"
    /\ lastArg = <<"raise">>
    /\ Len(messages) = 9
    /\ messages[1] = system_message("s5")
    /\ messages[2] = assistant_message("m2")
    /\ messages[9] = assistant_message("m10")

\* C28: an add_message that makes the log longer than 2 * max_messages
\* leaves the system messages followed by the last max_messages other
\* messages in their order; otherwise add_message appends the message, or
\* leaves the log as it is when the message repeats the last one.
C28_EmergencyTruncation ==
    [][lastOp' \in {"add", "dedup", "truncate"} =>
        LET m    == lastArg'[1]
            dup  == /\ messages # <<>>
                    /\ messages[Len(messages)].role = m.role
                    /\ messages[Len(messages)].content = m.content
                    /\ m.tool_calls = <<>>
            app  == Append(messages, m)
            sys  == SelectSeq(app, IsSystem)
            non  == SelectSeq(app, IsNotSystem)
            tail == IF Len(non) > mem_max_messages
                    THEN SubSeq(non, Len(non) - mem_max_messages + 1, Len(non))
                    ELSE non
        IN  IF dup THEN messages' = messages
            ELSE IF Len(app) > 2 * mem_max_messages THEN messages' = sys \o tail
            ELSE messages' = app]_vars

\* a fifth message was added to a log holding system messages between the
\* others: the system messages lead and the last max_messages others follow
C28_Witness ==
    /\ lastOp = "truncate"
    /\ Len(messages) = mem_max_messages + 2
    /\ messages[1].role = SYSTEM
    /\ messages[2].role = SYSTEM
    /\ messages[3].role # SYSTEM
    /\ messages[Len(messages)] = lastArg[1]
    /\ lastArg[1].role = TOOL

\* C29: within one run the state enters a terminal state (FINISHED, ERROR)
\* at most once: once it is terminal no step of the run changes it.
C29_OneTerminalTransition ==
    [][(state = FINISHED \/ state = ERROR) => state' = state]_vars

\* terminate was the first call of a turn and the handler of the second
\* call ran after it: the state is still FINISHED
C29_Witness ==
    /\ pc = "critic"
    /\ Len(tool_calls) = 2
    /\ tool_calls[1].name = "terminate"
    /\ tool_calls[2].name = "terminal"
    /\ terminated = "A"
    /\ handlerLog = <<"raise", "A">>
    /\ state = FINISHED

\* C30: when the think call of a step failed, the run has ended with the
\* state ERROR and with an assistant message, added for the failure, at
\* the end of memory.
C30_ThinkFailureRecorded ==
    (lastThink = "raise" /\ pc = "done") =>
        /\ state = ERROR
        /\ messages # <<>>
        /\ messages[Len(messages)].role = ASSISTANT
        /\ messages[Len(messages)].content # "hi"

(***************************************************************************)
(* Termination after browsing                                              *)
(***************************************************************************)
\* the browser actions that read or act on a page
InteractionActions == {"click", "read", "extract", "input", "scroll"}

\* the call is a browser call with one of the interaction actions
IsInteraction(call) ==
    /\ call.name = "browser"
    /\ \E a \in InteractionActions :
          Contains(call.arguments, "\"action\": \"" \o a \o "\"")

\* the last ten messages hold a browser call that no interaction follows
BrowserPending(msgs) ==
    LET last == LastN(msgs, 10)
    IN  \E i \in 1..Len(last) :
          /\ \E k \in 1..Len(last[i].tool_calls) :
                last[i].tool_calls[k].name = "browser"
          /\ \A j \in i..Len(last) :
                \A k \in 1..Len(last[j].tool_calls) :
                    ~IsInteraction(last[j].tool_calls[k])

\* C31: when the last ten messages hold a browser call with no later
\* click, read, extract, input or scroll, a terminate call of the current
\* step does not set the state to FINISHED: a tool message is recorded and
\* the loop continues.
C31_LazyTerminateIntercepted ==
    (/\ AfterCall
     /\ LastCall.name = "terminate"
     /\ JsonValid(LastCall.arguments)
     /\ BrowserPending(DropLastN(messages, 1)))
    => /\ state # FINISHED
       /\ messages[Len(messages)].role = TOOL

(***************************************************************************)
(* Side effects and the tool cache                                         *)
(***************************************************************************)
\* the tools whose calls change something outside the agent
SideEffectful == {"planning", "terminate", "terminal", "python_execute"}

\* the cache entry was stored for a call of the tool name
EntryOf(e, name) == StartsAt(e[1], 1, name \o ":")

\* C32: the result of a side-effectful tool (planner, terminate, terminal,
\* python execution) is never stored in the tool cache nor served from it:
\* every call of such a tool invokes its handler, also when the same
\* (name, arguments) call was made before in the session.
C32_SideEffectsNotCached ==
    /\ [](\A e \in tool_cache : \A name \in SideEffectful : ~EntryOf(e, name))
    /\ [][(/\ pc = "exec"
           /\ CallAt(tool_calls, callIdx).name \in SideEffectful \cap RegisteredTools
           /\ JsonValid(CallAt(tool_calls, callIdx).arguments))
          => handlerCalls' >= 1]_vars

(***************************************************************************)
(* Usage accounting                                                        *)
(***************************************************************************)
\* the record by_provider keeps for the provider, zeros when it has none
UsageOf(stats, provider) ==
    IF \E i \in 1..Len(stats) : stats[i].provider = provider
    THEN LET i == CHOOSE i \in 1..Len(stats) : stats[i].provider = provider
         IN  <<stats[i].input_tokens, stats[i].output_tokens, stats[i].requests>>
    ELSE <<0, 0, 0>>

\* the names of the providers of the failover order
ProviderNames == { ProviderName(p) : p \in 0..MaxBackups }

\* C33: in llm.py's ask_tool each successful provider response adds one
\* request and its prompt and completion tokens (zero for a missing value)
\* to the record of the provider that answered and changes the record of
\* no other provider; a failed provider call records nothing.
C33_UsagePerAnswer ==
    [][(impl = "llm" /\ Len(trace') = Len(trace) + 1) =>
         LET c      == trace'[Len(trace')]
             before == UsageOf(usage, c.by)
             after  == UsageOf(usage', c.by)
         IN  IF c.ok
             THEN /\ after[3] = before[3] + 1
                  /\ <<after[1] - before[1], after[2] - before[2]>>
                        \in {<<0, 0>>, <<3, 1>>}
                  /\ \A q \in ProviderNames \ {c.by} :
                        UsageOf(usage', q) = UsageOf(usage, q)
             ELSE usage' = usage]_vars

(***************************************************************************)
(* Retry before failover                                                   *)
(***************************************************************************)
\* call i of the request and the calls before it, stop_after_attempt in
\* all, went to one provider
AttemptsUsedUp(i) ==
    /\ i >= stop_after_attempt
    /\ \A j \in (i - stop_after_attempt + 1)..i : trace[j].by = trace[i].by

\* C34: a provider that failed with a transient error is called again,
\* up to the attempt cap, before the next provider of the failover order
\* is called: no call goes to another provider while attempts on the
\* provider that just failed remain.
C34_RetrySameProviderFirst ==
    \A i \in 1..(Len(trace) - 1) :
        (/\ ~trace[i].ok
         /\ IsTransient(trace[i].text)
         /\ trace[i + 1].by # trace[i].by)
        => AttemptsUsedUp(i)

(***************************************************************************)
(* After terminate                                                         *)
(***************************************************************************)
\* C37 as stated: once a terminate call has executed, no step of the run
\* invokes a tool handler or appends a message to memory, also when the
\* same turn lists more calls after terminate.
C37_NothingAfterTerminate ==
    [][terminated # None => (handlerCalls' = 0 /\ messages' = messages)]_vars

\* C37, amended: once a terminate call has executed, the state stays
\* FINISHED, no further think call is issued and the critic is not asked
\* in that run; the calls the same turn lists after terminate are still
\* walked through by the executor loop, and one whose arguments parse,
\* whose tool is registered and whose result is not cached has its handler
\* invoked.
C37_AfterTerminate ==
    [][terminated # None =>
         /\ state' = FINISHED
         /\ thinkCalls' = thinkCalls
         /\ criticCalls' = criticCalls
         /\ pc = "exec" =>
               LET call == CallAt(tool_calls, callIdx)
               IN  /\ pc' = IF callIdx < Len(tool_calls) THEN "exec" ELSE "critic"
                   /\ (/\ JsonValid(call.arguments)
                       /\ call.name \in RegisteredTools
                       /\ ~CacheHit(cache_key(call.name, call.arguments)))
                      => handlerCalls' >= 1]_vars

\* the run ended after one think call whose turn listed terminate and then
\* terminal: the handler of terminal ran and its tool message ends memory
C37_Witness ==
    /\ pc = "done"
    /\ thinkCalls = 1
    /\ criticCalls = 0
    /\ terminated = "A"
    /\ Len(tool_calls) = 2
    /\ tool_calls[1].name = "terminate"
    /\ tool_calls[2].name = "terminal"
    /\ messages[Len(messages)].role = TOOL
    /\ messages[Len(messages)].name = "terminal"
    /\ messages[Len(messages)].content = "Error: command failed"

(***************************************************************************)
(* Tool responses and the turns that issued them                           *)
(***************************************************************************)
\* every tool message follows an assistant message that lists its
\* tool_call_id, with no other assistant message in between
Paired(msgs) ==
    \A i \in 1..Len(msgs) :
        msgs[i].role = TOOL =>
            \E j \in 1..(i - 1) :
                /\ msgs[j].role = ASSISTANT
                /\ \E k \in 1..Len(msgs[j].tool_calls) :
                      msgs[j].tool_calls[k].id = msgs[i].tool_call_id
                /\ \A l \in (j + 1)..(i - 1) : msgs[l].role # ASSISTANT

\* C38: summarize and the emergency truncation of add_message never keep
\* a tool message while dropping the assistant turn that issued its call:
\* when every tool message was preceded by its assistant turn before the
\* compaction, the same holds of the memory after it.
C38_CompactionKeepsPairs ==
    [][((lastOp' = "summarize" \/ lastOp' = "truncate")
        /\ Paired(IF lastOp' = "truncate"
                  THEN Append(messages, lastArg'[1]) ELSE messages))
       => Paired(messages')]_vars

(***************************************************************************)
(* Sanitizing twice                                                        *)
(***************************************************************************)
\* C39: sanitize_content is idempotent on strings over the sentinel
\* alphabet: the content that was sanitized when it was stored is not
\* changed when it is sanitized again on serialization.
C39_SanitizeIdempotent ==
    lastOp = "to_dict" =>
        /\ lastArg[2] = messages[1].content
        /\ sanitize_content(sanitize_content(lastArg[1]))
             = sanitize_content(lastArg[1])

(***************************************************************************)
(* Plans and dependencies                                                  *)
(***************************************************************************)
\* no step of the plan is in_progress or completed while a step it depends
\* on is missing or not completed
DependenciesRespected(plan) ==
    \A i \in 1..Len(plan.statuses) :
        plan.statuses[i] \in {"in_progress", "completed"} =>
            \A k \in 1..Len(plan.dependencies[i]) :
                LET d == plan.dependencies[i][k]
                IN  d < Len(plan.statuses) /\ plan.statuses[d + 1] = "completed"

\* C40: after any sequence of create, update, mark_step and delete no step
\* of a plan is in_progress or completed while a step it depends on is not
\* completed; a mark_step call that would break this returns an error and
\* leaves the plan unchanged.
C40_DependenciesRespected ==
    \A plan_id \in DOMAIN plans : DependenciesRespected(plans[plan_id])

(***************************************************************************)
(* The chunks of a stream                                                  *)
(***************************************************************************)
\* C36: the chunks a consumer of ask_tool_stream receives are those of one
\* provider's response: when the primary fails with a transient error
\* after it yielded chunks and a backup then answers, the consumer has not
\* received chunks of the failed attempt followed by the backup's chunks.
C36_OneResponsePerStream ==
    lpc = "returned" =>
        \A i \in 1..Len(chunks), j \in 1..Len(chunks) :
            chunks[i].by = chunks[j].by

(***************************************************************************)
(* Two agents                                                              *)
(***************************************************************************)
\* C35: with the steps of two agent instances interleaved in any order, no
\* operation of one instance changes the Memory, the tool cache, the
\* response cache, the usage record, the state or the step counter of the
\* other; the instances hold no object in common, and what they share as
\* class attributes is not changed by any operation of a constructed
\* instance.
C35_AgentsIsolated ==
    /\ [][\A b \in DOMAIN agents :
            lastArg' # <<b>> => (b \in DOMAIN agents' /\ View(b)' = View(b))]_vars
    /\ [](\A a \in DOMAIN agents, b \in DOMAIN agents :
            a # b => Refs(a) \cap Refs(b) = {})
    /\ [][lastOp' # "new" =>
            (listeners' = listeners /\ instances_count' = instances_count)]_vars

\* both instances ran, the first finished its run while the second is
\* still running, and their memories, caches and usage records differ
C35_Witness ==
    /\ DOMAIN agents = AgentIds
    /\ agents[1].state = FINISHED
    /\ agents[2].state = RUNNING
    /\ agents[1].current_step = 1
    /\ agents[2].current_step = 0
    /\ View(1).memory # View(2).memory
    /\ View(1).tool_cache # {}
    /\ View(2).tool_cache = {}
    /\ View(1).usage_tracker # View(2).usage_tracker
    /\ lastArg = <<2>>

====
